---- MODULE Spec2Model ----
(***************************************************************************)
(* Trading decision engine of trade_analysis.                              *)
(*                                                                         *)
(* The engine is trading/state.py, trading/core.py, trading/rules.py and    *)
(* trading/utils.py, driven by the signal dispatcher whose keyword         *)
(* interface is the one ws/broadcaster.py calls; the default strategy and  *)
(* the manual toggle follow trade_simulator.py.                            *)
(* The manual trade route follows api/routes/trades.py, the resets         *)
(* clear_bot and clear_all follow trading/core.py.                         *)
(* Money is counted in cents, time in ticks of TickSeconds seconds.        *)
(* An optional value is a sequence of length 0 (None) or 1.                *)
(***************************************************************************)
EXTENDS Integers, Sequences, FiniteSets, TLC

VARIABLES
    now,            \* the wall clock read by datetime.utcnow()
    states,         \* StateManager.states: key -> TickerState
    trade_history,  \* TradingCore.trade_history: the global ledger
    last_call,      \* the last call: its operation and the step that ended it
    on_trade_calls, \* the invocations of the on_trade callback in the last call
    session,        \* the family of configurations the calls draw from
    in_progress,    \* the on_signal call the broadcaster loop is in the middle of
    hours_call      \* an is_trading_hours call: its arguments, the clocks, its answer

vars == <<now, states, trade_history, last_call, on_trade_calls, session,
          in_progress, hours_call>>

----------------------------------------------------------------------------
(* Bounds *)

MaxTime == 4
MaxTrades == 4
TickSeconds == 30

(* Program constants *)

SecondsPerMinute == 60

----------------------------------------------------------------------------
(* Optional values *)

None == <<>>
Some(x) == <<x>>
IsNone(o) == o = <<>>
NotNone(o) == o # <<>>
Val(o) == o[1]

NoReason == "None"

Max(a, b) == IF a >= b THEN a ELSE b

----------------------------------------------------------------------------
(* trading/utils.py *)

Digits == {"0", "1", "2", "3", "4", "5", "6", "7", "8", "9"}

DigitVal(ch) ==
    CASE ch = "0" -> 0 [] ch = "1" -> 1 [] ch = "2" -> 2 [] ch = "3" -> 3
      [] ch = "4" -> 4 [] ch = "5" -> 5 [] ch = "6" -> 6 [] ch = "7" -> 7
      [] ch = "8" -> 8 [] ch = "9" -> 9

RECURSIVE DigitsToNat(_)
DigitsToNat(ds) ==
    IF ds = <<>> THEN 0
    ELSE 10 * DigitsToNat(SubSeq(ds, 1, Len(ds) - 1)) + DigitVal(ds[Len(ds)])

RECURSIVE RemoveChars(_, _)
RemoveChars(str, chars) ==
    IF str = <<>> THEN <<>>
    ELSE IF str[1] \in chars THEN RemoveChars(Tail(str), chars)
    ELSE <<str[1]>> \o RemoveChars(Tail(str), chars)

RECURSIVE LStrip(_)
LStrip(str) ==
    IF str # <<>> /\ str[1] = " " THEN LStrip(Tail(str)) ELSE str

RECURSIVE RStrip(_)
RStrip(str) ==
    IF str # <<>> /\ str[Len(str)] = " "
    THEN RStrip(SubSeq(str, 1, Len(str) - 1)) ELSE str

Strip(str) == RStrip(LStrip(str))

AllDigits(str) == \A i \in 1..Len(str) : str[i] \in Digits

DotPositions(str) == {i \in 1..Len(str) : str[i] = "."}

\* float(clean) for an unsigned decimal literal with at most two fractional
\* digits, in cents; None stands for ValueError.
PyFloatCents(clean) ==
    LET body == IF clean # <<>> /\ clean[1] \in {"+", "-"} THEN Tail(clean) ELSE clean
        sign == IF clean # <<>> /\ clean[1] = "-" THEN -1 ELSE 1
        dots == DotPositions(body)
    IN  IF body = <<>> THEN None
        ELSE IF dots = {} THEN
            IF AllDigits(body) THEN Some(sign * 100 * DigitsToNat(body)) ELSE None
        ELSE IF Cardinality(dots) > 1 THEN None
        ELSE LET d == CHOOSE i \in dots : TRUE
                 ip == SubSeq(body, 1, d - 1)
                 fp == SubSeq(body, d + 1, Len(body))
             IN  IF ~AllDigits(ip) \/ ~AllDigits(fp) THEN None
                 ELSE IF ip = <<>> /\ fp = <<>> THEN None
                 ELSE IF Len(fp) > 2 THEN None
                 ELSE Some(sign * (100 * DigitsToNat(ip)
                           + (IF Len(fp) = 1 THEN 10 * DigitsToNat(fp)
                              ELSE DigitsToNat(fp))))

\* A price argument is None, a number (in cents) or a string of characters.
PyNone == [kind |-> "none"]
PyNum(n) == [kind |-> "num", val |-> n]
PyStr(str) == [kind |-> "str", chars |-> str]

\* parse_price falling back to 0.0 where float() raises ValueError.
parse_price_zero_on_error(price_str) ==
    IF price_str.kind = "none" THEN None
    ELSE IF price_str.kind = "num" THEN
        IF price_str.val = 0 THEN None ELSE Some(price_str.val)
    ELSE IF price_str.chars = <<>> THEN None
    ELSE LET f == PyFloatCents(RemoveChars(Strip(price_str.chars), {"$", ",", " "}))
         IN  IF IsNone(f) THEN Some(0) ELSE f

parse_price(price_str) ==
    IF price_str.kind = "none" THEN None
    ELSE IF price_str.kind = "num" THEN
        IF price_str.val = 0 THEN None ELSE Some(price_str.val)
    ELSE IF price_str.chars = <<>> THEN None
    ELSE PyFloatCents(RemoveChars(Strip(price_str.chars), {"$", ",", " "}))

Upper(ch) ==
    CASE ch = "a" -> "A" [] ch = "b" -> "B" [] OTHER -> ch

UpperStr(str) == [i \in 1..Len(str) |-> Upper(str[i])]

normalize_ticker(ticker) == UpperStr(Strip(ticker))

normalize_bot_id(bot_id) == Strip(bot_id)

\* A key made of the ticker alone.
make_state_key_ticker_only(bot_id, ticker) == normalize_ticker(ticker)

make_state_key(bot_id, ticker) ==
    LET b == normalize_bot_id(bot_id)
        t == normalize_ticker(ticker)
    IN  IF t = <<>> THEN <<>>
        ELSE IF b # <<>> THEN b \o <<":">> \o t
        ELSE t

----------------------------------------------------------------------------
(* trading/state.py *)

TickerState(ticker, bot_id, bot_name) ==
    [ticker |-> ticker, bot_id |-> bot_id, bot_name |-> bot_name,
     position |-> None,
     first_cycle_done |-> FALSE,
     waiting_for_second_down |-> FALSE,
     last_direction |-> "None",
     trade_history |-> <<>>,
     last_price |-> None, peak_price |-> None, drop_count |-> 0,
     rule5_down_start |-> None,
     rule5_ready_for_reversal |-> FALSE,
     rule5_reversal_active |-> FALSE,
     rule5_reversal_price |-> None,
     rule5_scalp_active |-> FALSE,
     rule6_down_start |-> None,
     rule6_ready_for_buy |-> FALSE,
     rule6_active |-> FALSE,
     rule7_up_start |-> None,
     rule7_active |-> FALSE,
     rule7_ready_for_buy |-> FALSE,
     rule8_watch_price |-> None,
     rule9_flips |-> <<>>,
     rule9_last_sell_time |-> None,
     slot |-> 0]

\* StateManager.get_or_create, on the map m of states.
\* An existing state taking every identity the caller gives.
get_or_create_overwrites_identity(m, key, ticker, bot_id, bot_name) ==
    IF key \notin DOMAIN m
    THEN [k \in DOMAIN m \cup {key} |->
            IF k = key
            THEN [TickerState(ticker, bot_id, bot_name) EXCEPT
                      !.slot = 1 + Cardinality(DOMAIN m)]
            ELSE m[k]]
    ELSE [m EXCEPT
            ![key].ticker = IF ticker # <<>> THEN ticker ELSE @,
            ![key].bot_id = IF bot_id # <<>> THEN bot_id ELSE @,
            ![key].bot_name = IF bot_name # <<>> THEN bot_name ELSE @]

\* StateManager.states is a dict: it iterates in the order the keys were
\* inserted.  slot is the place of a key in that order; a new key goes last.
LastSlot(m) ==
    IF DOMAIN m = {} THEN 0
    ELSE CHOOSE n \in {m[k].slot : k \in DOMAIN m} :
            \A k \in DOMAIN m : m[k].slot <= n

get_or_create(m, key, ticker, bot_id, bot_name) ==
    IF key \notin DOMAIN m
    THEN [k \in DOMAIN m \cup {key} |->
            IF k = key
            THEN [TickerState(ticker, bot_id, bot_name) EXCEPT
                      !.slot = LastSlot(m) + 1]
            ELSE m[k]]
    ELSE [m EXCEPT
            ![key].ticker = IF ticker # <<>> /\ @ = <<>> THEN ticker ELSE @,
            ![key].bot_id = IF bot_id # <<>> /\ @ = <<>> THEN bot_id ELSE @,
            ![key].bot_name = IF bot_name # <<>> /\ @ = <<>> THEN bot_name ELSE @]

----------------------------------------------------------------------------
(* trading/core.py.  A context c holds the TickerState being traded (c.s),   *)
(* the global ledger (c.g), how the on_trade callback ends when it is       *)
(* invoked (c.on_trade: "ok", "raises", or "none" when no callback is set)  *)
(* and the invocations made so far in the call (c.sent); t is the value of  *)
(* datetime.utcnow().                                                       *)

Context(st, g, on_trade) ==
    [s |-> st, g |-> g, on_trade |-> on_trade, sent |-> <<>>]

\* _log_trade invoking the callback before the appends, so that an exception
\* it raises leaves the record out of both histories.
_log_trade_callback_first(c, key, direction, price, profit, win_reason, trade_id, t) ==
    LET trade == [ticker |-> IF c.s.ticker # <<>> THEN c.s.ticker ELSE key,
                  bot_id |-> c.s.bot_id,
                  bot_name |-> c.s.bot_name,
                  direction |-> direction,
                  price |-> price,
                  profit |-> profit,
                  ts |-> t,
                  trade_id |-> trade_id,
                  win_reason |-> win_reason]
        c1 == [c EXCEPT !.s.trade_history = Append(@, trade),
                        !.g = Append(@, trade)]
    IN  IF c.on_trade = "none" THEN c1
        ELSE IF c.on_trade = "raises"
        THEN [c EXCEPT !.sent = Append(@, [trade |-> trade, raised |-> TRUE])]
        ELSE [c1 EXCEPT !.sent = Append(@, [trade |-> trade, raised |-> FALSE])]

\* The record is appended to both histories, then handed to the callback;
\* an exception the callback raises is swallowed.
_log_trade(c, key, direction, price, profit, win_reason, trade_id, t) ==
    LET trade == [ticker |-> IF c.s.ticker # <<>> THEN c.s.ticker ELSE key,
                  bot_id |-> c.s.bot_id,
                  bot_name |-> c.s.bot_name,
                  direction |-> direction,
                  price |-> price,
                  profit |-> profit,
                  ts |-> t,
                  trade_id |-> trade_id,
                  win_reason |-> win_reason]
        c1 == [c EXCEPT !.s.trade_history = Append(@, trade),
                        !.g = Append(@, trade)]
    IN  IF c.on_trade = "none" THEN c1
        ELSE [c1 EXCEPT !.sent = Append(@, [trade |-> trade,
                                            raised |-> c.on_trade = "raises"])]

buy(c, key, price, t) ==
    IF key = <<>> THEN c
    ELSE LET pos == [entry |-> price,
                     ticker |-> IF c.s.ticker # <<>> THEN c.s.ticker ELSE key,
                     ts |-> t,
                     trade_id |-> t]
             c1 == [c EXCEPT !.s.position = Some(pos),
                             !.s.last_direction = "buy",
                             !.s.last_price = Some(price),
                             !.s.peak_price = Some(price),
                             !.s.drop_count = 0]
         IN  _log_trade(c1, key, "buy", price, None, NoReason, t, t)

\* sell, stamping the record with the time of the sale as its trade_id.
sell_fresh_trade_id(c, key, price, win_reason, t) ==
    IF key = <<>> THEN c
    ELSE IF IsNone(c.s.position) THEN c
    ELSE LET pos == Val(c.s.position)
             profit == price - pos.entry
             c1 == [c EXCEPT !.s.position = None,
                             !.s.last_direction = "sell",
                             !.s.last_price = None,
                             !.s.peak_price = None,
                             !.s.drop_count = 0]
         IN  _log_trade(c1, key, "sell", price, Some(profit), win_reason, t, t)

\* sell, taking the profit against the last seen price instead of the entry.
sell_profit_last_price(c, key, price, win_reason, t) ==
    IF key = <<>> THEN c
    ELSE IF IsNone(c.s.position) THEN c
    ELSE LET pos == Val(c.s.position)
             profit == price - (IF NotNone(c.s.last_price)
                                THEN Val(c.s.last_price) ELSE pos.entry)
             c1 == [c EXCEPT !.s.position = None,
                             !.s.last_direction = "sell",
                             !.s.last_price = None,
                             !.s.peak_price = None,
                             !.s.drop_count = 0]
         IN  _log_trade(c1, key, "sell", price, Some(profit), win_reason,
                        pos.trade_id, t)

\* A sell that records its direction before it looks at the position.
sell_marks_direction_when_flat(c, key, price, win_reason, t) ==
    IF key = <<>> THEN c
    ELSE IF IsNone(c.s.position) THEN [c EXCEPT !.s.last_direction = "sell"]
    ELSE LET pos == Val(c.s.position)
             profit == price - pos.entry
             c1 == [c EXCEPT !.s.position = None,
                             !.s.last_direction = "sell",
                             !.s.last_price = None,
                             !.s.peak_price = None,
                             !.s.drop_count = 0]
         IN  _log_trade(c1, key, "sell", price, Some(profit), win_reason,
                        pos.trade_id, t)

sell(c, key, price, win_reason, t) ==
    IF key = <<>> THEN c
    ELSE IF IsNone(c.s.position) THEN c
    ELSE LET pos == Val(c.s.position)
             profit == price - pos.entry
             c1 == [c EXCEPT !.s.position = None,
                             !.s.last_direction = "sell",
                             !.s.last_price = None,
                             !.s.peak_price = None,
                             !.s.drop_count = 0]
         IN  _log_trade(c1, key, "sell", price, Some(profit), win_reason,
                        pos.trade_id, t)

----------------------------------------------------------------------------
(* The callbacks the dispatcher hands to the rules.  The sell callback also *)
(* stamps the Rule 9 cooldown anchor whenever it closed a position.          *)

buy_callback(c, key, price, t) == buy(c, key, price, t)

sell_callback(c, key, price, win_reason, t) ==
    LET c1 == sell(c, key, price, win_reason, t)
    IN  IF NotNone(c.s.position) /\ key # <<>>
        THEN [c1 EXCEPT !.s.rule9_last_sell_time = Some(t)]
        ELSE c1

----------------------------------------------------------------------------
(* trading/rules.py.  A rule returns [c |-> the context after it ran,       *)
(* ret |-> its boolean result].  Amounts are optional numbers (None when   *)
(* the caller passes None).                                                *)

Ret(c, b) == [c |-> c, ret |-> b]

\* Rule 1 selling only above the target, not at it.
maybe_take_profit_sell_strict(c, key, current_price, take_profit_amount, t) ==
    IF IsNone(c.s.position) THEN Ret(c, FALSE)
    ELSE IF IsNone(take_profit_amount) THEN Ret(c, FALSE)
    ELSE IF Val(take_profit_amount) <= 0 THEN Ret(c, FALSE)
    ELSE IF current_price > Val(c.s.position).entry + Val(take_profit_amount)
    THEN Ret(sell_callback(c, key, current_price, "TAKE_PROFIT_RULE_1", t), TRUE)
    ELSE Ret(c, FALSE)

maybe_take_profit_sell(c, key, current_price, take_profit_amount, t) ==
    IF IsNone(c.s.position) THEN Ret(c, FALSE)
    ELSE IF IsNone(take_profit_amount) THEN Ret(c, FALSE)
    ELSE IF Val(take_profit_amount) <= 0 THEN Ret(c, FALSE)
    ELSE IF current_price >= Val(c.s.position).entry + Val(take_profit_amount)
    THEN Ret(sell_callback(c, key, current_price, "TAKE_PROFIT_RULE_1", t), TRUE)
    ELSE Ret(c, FALSE)

\* Rule 2 selling only below the stop, not at it.
maybe_stop_loss_sell_strict(c, key, current_price, stop_loss_amount, t) ==
    IF IsNone(c.s.position) THEN Ret(c, FALSE)
    ELSE LET sl0 == IF NotNone(stop_loss_amount) THEN Val(stop_loss_amount) ELSE 0
             sl == IF sl0 < 0 THEN 0 ELSE sl0
         IN  IF current_price < Val(c.s.position).entry - sl
             THEN Ret(sell_callback(c, key, current_price, "STOP_LOSS_RULE_2", t), TRUE)
             ELSE Ret(c, FALSE)

\* Rule 2 holding the position while Rule 7 has its buy open.
maybe_stop_loss_sell_holds_for_rule7(c, key, current_price, stop_loss_amount, t) ==
    IF IsNone(c.s.position) THEN Ret(c, FALSE)
    ELSE IF c.s.rule7_active THEN Ret(c, FALSE)
    ELSE LET sl0 == IF NotNone(stop_loss_amount) THEN Val(stop_loss_amount) ELSE 0
             sl == IF sl0 < 0 THEN 0 ELSE sl0
         IN  IF current_price <= Val(c.s.position).entry - sl
             THEN Ret(sell_callback(c, key, current_price, "STOP_LOSS_RULE_2", t), TRUE)
             ELSE Ret(c, FALSE)

maybe_stop_loss_sell(c, key, current_price, stop_loss_amount, t) ==
    IF IsNone(c.s.position) THEN Ret(c, FALSE)
    ELSE LET sl0 == IF NotNone(stop_loss_amount) THEN Val(stop_loss_amount) ELSE 0
             sl == IF sl0 < 0 THEN 0 ELSE sl0
         IN  IF current_price <= Val(c.s.position).entry - sl
             THEN Ret(sell_callback(c, key, current_price, "STOP_LOSS_RULE_2", t), TRUE)
             ELSE Ret(c, FALSE)

\* Rule 3 counting an unchanged price as a drop.
maybe_consecutive_drops_sell_counts_equal(c, key, current_price, drop_count_required, t) ==
    IF IsNone(c.s.position) THEN Ret(c, FALSE)
    ELSE LET n_required == IF NotNone(drop_count_required)
                           THEN Val(drop_count_required) ELSE 0
         IN  IF n_required <= 0 THEN Ret(c, FALSE)
             ELSE IF IsNone(c.s.last_price)
             THEN Ret([c EXCEPT !.s.last_price = Some(current_price)], FALSE)
             ELSE LET last_price == Val(c.s.last_price)
                      dc == IF current_price <= last_price THEN c.s.drop_count + 1
                            ELSE IF current_price > last_price THEN 0
                            ELSE c.s.drop_count
                      c1 == [c EXCEPT !.s.drop_count = dc,
                                      !.s.last_price = Some(current_price)]
                  IN  IF dc >= n_required
                      THEN LET c2 == sell_callback(c1, key, current_price,
                                                   "CONSECUTIVE_DROPS_RULE_3", t)
                           IN  Ret([c2 EXCEPT !.s.drop_count = 0], TRUE)
                      ELSE Ret(c1, FALSE)

maybe_consecutive_drops_sell(c, key, current_price, drop_count_required, t) ==
    IF IsNone(c.s.position) THEN Ret(c, FALSE)
    ELSE LET n_required == IF NotNone(drop_count_required)
                           THEN Val(drop_count_required) ELSE 0
         IN  IF n_required <= 0 THEN Ret(c, FALSE)
             ELSE IF IsNone(c.s.last_price)
             THEN Ret([c EXCEPT !.s.last_price = Some(current_price)], FALSE)
             ELSE LET last_price == Val(c.s.last_price)
                      dc == IF current_price < last_price THEN c.s.drop_count + 1
                            ELSE IF current_price > last_price THEN 0
                            ELSE c.s.drop_count
                      c1 == [c EXCEPT !.s.drop_count = dc,
                                      !.s.last_price = Some(current_price)]
                  IN  IF dc >= n_required
                      THEN LET c2 == sell_callback(c1, key, current_price,
                                                   "CONSECUTIVE_DROPS_RULE_3", t)
                           IN  Ret([c2 EXCEPT !.s.drop_count = 0], TRUE)
                      ELSE Ret(c1, FALSE)

\* "x if x else d": None and 0 are falsy.
OrDefault(o, d) == IF IsNone(o) THEN d ELSE IF Val(o) = 0 THEN d ELSE Val(o)

\* (t - start).total_seconds()
ElapsedSeconds(t, start) == (t - start) * TickSeconds

\* Rule 5 keeping its down-streak start when a non-down signal arrives
\* before it is armed.
maybe_rule5_trade_keeps_count(c, key, trend, current_price, down_minutes, reversal_amount, scalp_amount, t) ==
    LET down_m == Max(OrDefault(down_minutes, 3), 1)
        rev_amt == Max(OrDefault(reversal_amount, 200), 10)
        scalp_amt == Max(OrDefault(scalp_amount, 25), 1)
    IN  IF c.s.rule5_reversal_active THEN
            IF NotNone(c.s.rule5_reversal_price)
               /\ current_price >= Val(c.s.rule5_reversal_price) + rev_amt
            THEN LET c1 == sell_callback(c, key, current_price, "RULE_5", t)
                 IN  Ret([c1 EXCEPT !.s.rule5_reversal_active = FALSE,
                                    !.s.rule5_reversal_price = None,
                                    !.s.rule5_scalp_active = TRUE], TRUE)
            ELSE Ret(c, TRUE)
        ELSE IF c.s.rule5_scalp_active /\ trend = "up" THEN
            IF IsNone(c.s.position)
            THEN LET c1 == buy_callback(c, key, current_price, t)
                 IN  Ret(sell_callback(c1, key, current_price + scalp_amt, "RULE_5", t), TRUE)
            ELSE Ret(c, TRUE)
        ELSE
            LET c0 == IF c.s.rule5_scalp_active
                      THEN [c EXCEPT !.s.rule5_scalp_active = FALSE] ELSE c
                c1 == IF trend = "down" THEN
                          IF IsNone(c0.s.rule5_down_start)
                          THEN [c0 EXCEPT !.s.rule5_down_start = Some(t)]
                          ELSE IF ElapsedSeconds(t, Val(c0.s.rule5_down_start))
                                  >= down_m * SecondsPerMinute
                          THEN [c0 EXCEPT !.s.rule5_ready_for_reversal = TRUE]
                          ELSE c0
                      ELSE c0
            IN  IF c1.s.rule5_ready_for_reversal /\ trend = "up"
                THEN LET c2 == [c1 EXCEPT !.s.rule5_ready_for_reversal = FALSE,
                                          !.s.rule5_down_start = None,
                                          !.s.rule5_reversal_price = Some(current_price),
                                          !.s.rule5_reversal_active = TRUE]
                     IN  IF IsNone(c2.s.position)
                         THEN Ret(buy_callback(c2, key, current_price, t), TRUE)
                         ELSE Ret(c2, TRUE)
                ELSE Ret(c1, FALSE)

\* Rule 5 closing its reversal trade only above the target, not at it.
maybe_rule5_trade_above_target(c, key, trend, current_price, down_minutes, reversal_amount, scalp_amount, t) ==
    LET down_m == Max(OrDefault(down_minutes, 3), 1)
        rev_amt == Max(OrDefault(reversal_amount, 200), 10)
        scalp_amt == Max(OrDefault(scalp_amount, 25), 1)
    IN  IF c.s.rule5_reversal_active THEN
            IF NotNone(c.s.rule5_reversal_price)
               /\ current_price > Val(c.s.rule5_reversal_price) + rev_amt
            THEN LET c1 == sell_callback(c, key, current_price, "RULE_5", t)
                 IN  Ret([c1 EXCEPT !.s.rule5_reversal_active = FALSE,
                                    !.s.rule5_reversal_price = None,
                                    !.s.rule5_scalp_active = TRUE], TRUE)
            ELSE Ret(c, TRUE)
        ELSE IF c.s.rule5_scalp_active /\ trend = "up" THEN
            IF IsNone(c.s.position)
            THEN LET c1 == buy_callback(c, key, current_price, t)
                 IN  Ret(sell_callback(c1, key, current_price + scalp_amt, "RULE_5", t), TRUE)
            ELSE Ret(c, TRUE)
        ELSE
            LET c0 == IF c.s.rule5_scalp_active
                      THEN [c EXCEPT !.s.rule5_scalp_active = FALSE] ELSE c
                c1 == IF trend = "down" THEN
                          IF IsNone(c0.s.rule5_down_start)
                          THEN [c0 EXCEPT !.s.rule5_down_start = Some(t)]
                          ELSE IF ElapsedSeconds(t, Val(c0.s.rule5_down_start))
                                  >= down_m * SecondsPerMinute
                          THEN [c0 EXCEPT !.s.rule5_ready_for_reversal = TRUE]
                          ELSE c0
                      ELSE IF ~c0.s.rule5_ready_for_reversal
                      THEN [c0 EXCEPT !.s.rule5_down_start = None]
                      ELSE c0
            IN  IF c1.s.rule5_ready_for_reversal /\ trend = "up"
                THEN LET c2 == [c1 EXCEPT !.s.rule5_ready_for_reversal = FALSE,
                                          !.s.rule5_down_start = None,
                                          !.s.rule5_reversal_price = Some(current_price),
                                          !.s.rule5_reversal_active = TRUE]
                     IN  IF IsNone(c2.s.position)
                         THEN Ret(buy_callback(c2, key, current_price, t), TRUE)
                         ELSE Ret(c2, TRUE)
                ELSE Ret(c1, FALSE)

\* Rule 5 closing a scalp trade at the price it was opened at.
maybe_rule5_trade_scalp_at_price(c, key, trend, current_price, down_minutes, reversal_amount, scalp_amount, t) ==
    LET down_m == Max(OrDefault(down_minutes, 3), 1)
        rev_amt == Max(OrDefault(reversal_amount, 200), 10)
        scalp_amt == Max(OrDefault(scalp_amount, 25), 1)
    IN  IF c.s.rule5_reversal_active THEN
            IF NotNone(c.s.rule5_reversal_price)
               /\ current_price >= Val(c.s.rule5_reversal_price) + rev_amt
            THEN LET c1 == sell_callback(c, key, current_price, "RULE_5", t)
                 IN  Ret([c1 EXCEPT !.s.rule5_reversal_active = FALSE,
                                    !.s.rule5_reversal_price = None,
                                    !.s.rule5_scalp_active = TRUE], TRUE)
            ELSE Ret(c, TRUE)
        ELSE IF c.s.rule5_scalp_active /\ trend = "up" THEN
            IF IsNone(c.s.position)
            THEN LET c1 == buy_callback(c, key, current_price, t)
                 IN  Ret(sell_callback(c1, key, current_price, "RULE_5", t), TRUE)
            ELSE Ret(c, TRUE)
        ELSE
            LET c0 == IF c.s.rule5_scalp_active
                      THEN [c EXCEPT !.s.rule5_scalp_active = FALSE] ELSE c
                c1 == IF trend = "down" THEN
                          IF IsNone(c0.s.rule5_down_start)
                          THEN [c0 EXCEPT !.s.rule5_down_start = Some(t)]
                          ELSE IF ElapsedSeconds(t, Val(c0.s.rule5_down_start))
                                  >= down_m * SecondsPerMinute
                          THEN [c0 EXCEPT !.s.rule5_ready_for_reversal = TRUE]
                          ELSE c0
                      ELSE IF ~c0.s.rule5_ready_for_reversal
                      THEN [c0 EXCEPT !.s.rule5_down_start = None]
                      ELSE c0
            IN  IF c1.s.rule5_ready_for_reversal /\ trend = "up"
                THEN LET c2 == [c1 EXCEPT !.s.rule5_ready_for_reversal = FALSE,
                                          !.s.rule5_down_start = None,
                                          !.s.rule5_reversal_price = Some(current_price),
                                          !.s.rule5_reversal_active = TRUE]
                     IN  IF IsNone(c2.s.position)
                         THEN Ret(buy_callback(c2, key, current_price, t), TRUE)
                         ELSE Ret(c2, TRUE)
                ELSE Ret(c1, FALSE)

maybe_rule5_trade(c, key, trend, current_price, down_minutes, reversal_amount, scalp_amount, t) ==
    LET down_m == Max(OrDefault(down_minutes, 3), 1)
        rev_amt == Max(OrDefault(reversal_amount, 200), 10)
        scalp_amt == Max(OrDefault(scalp_amount, 25), 1)
    IN  IF c.s.rule5_reversal_active THEN
            IF NotNone(c.s.rule5_reversal_price)
               /\ current_price >= Val(c.s.rule5_reversal_price) + rev_amt
            THEN LET c1 == sell_callback(c, key, current_price, "RULE_5", t)
                 IN  Ret([c1 EXCEPT !.s.rule5_reversal_active = FALSE,
                                    !.s.rule5_reversal_price = None,
                                    !.s.rule5_scalp_active = TRUE], TRUE)
            ELSE Ret(c, TRUE)
        ELSE IF c.s.rule5_scalp_active /\ trend = "up" THEN
            IF IsNone(c.s.position)
            THEN LET c1 == buy_callback(c, key, current_price, t)
                 IN  Ret(sell_callback(c1, key, current_price + scalp_amt, "RULE_5", t), TRUE)
            ELSE Ret(c, TRUE)
        ELSE
            LET c0 == IF c.s.rule5_scalp_active
                      THEN [c EXCEPT !.s.rule5_scalp_active = FALSE] ELSE c
                c1 == IF trend = "down" THEN
                          IF IsNone(c0.s.rule5_down_start)
                          THEN [c0 EXCEPT !.s.rule5_down_start = Some(t)]
                          ELSE IF ElapsedSeconds(t, Val(c0.s.rule5_down_start))
                                  >= down_m * SecondsPerMinute
                          THEN [c0 EXCEPT !.s.rule5_ready_for_reversal = TRUE]
                          ELSE c0
                      ELSE IF ~c0.s.rule5_ready_for_reversal
                      THEN [c0 EXCEPT !.s.rule5_down_start = None]
                      ELSE c0
            IN  IF c1.s.rule5_ready_for_reversal /\ trend = "up"
                THEN LET c2 == [c1 EXCEPT !.s.rule5_ready_for_reversal = FALSE,
                                          !.s.rule5_down_start = None,
                                          !.s.rule5_reversal_price = Some(current_price),
                                          !.s.rule5_reversal_active = TRUE]
                     IN  IF IsNone(c2.s.position)
                         THEN Ret(buy_callback(c2, key, current_price, t), TRUE)
                         ELSE Ret(c2, TRUE)
                ELSE Ret(c1, FALSE)

\* Rule 6 returning False while it holds a position below its target.
maybe_rule6_trade_lets_others_run(c, key, trend, current_price, down_minutes, profit_amount, t) ==
    LET down_m == Max(OrDefault(down_minutes, 5), 1)
        prof_amt == Max(OrDefault(profit_amount, 200), 10)
    IN  IF c.s.rule6_active /\ NotNone(c.s.position) THEN
            IF current_price >= Val(c.s.position).entry + prof_amt
            THEN LET c1 == sell_callback(c, key, current_price, "RULE_6", t)
                 IN  Ret([c1 EXCEPT !.s.rule6_active = FALSE], TRUE)
            ELSE Ret(c, FALSE)
        ELSE
            LET c1 == IF trend = "down" THEN
                          IF IsNone(c.s.rule6_down_start)
                          THEN [c EXCEPT !.s.rule6_down_start = Some(t)]
                          ELSE IF ElapsedSeconds(t, Val(c.s.rule6_down_start))
                                  >= down_m * SecondsPerMinute
                          THEN [c EXCEPT !.s.rule6_ready_for_buy = TRUE]
                          ELSE c
                      ELSE IF ~c.s.rule6_ready_for_buy
                      THEN [c EXCEPT !.s.rule6_down_start = None]
                      ELSE c
            IN  IF c1.s.rule6_ready_for_buy /\ trend = "up"
                THEN LET c2 == [c1 EXCEPT !.s.rule6_ready_for_buy = FALSE,
                                          !.s.rule6_down_start = None]
                         c3 == IF IsNone(c2.s.position)
                               THEN buy_callback(c2, key, current_price, t) ELSE c2
                     IN  Ret([c3 EXCEPT !.s.rule6_active = TRUE], TRUE)
                ELSE Ret(c1, FALSE)

maybe_rule6_trade(c, key, trend, current_price, down_minutes, profit_amount, t) ==
    LET down_m == Max(OrDefault(down_minutes, 5), 1)
        prof_amt == Max(OrDefault(profit_amount, 200), 10)
    IN  IF c.s.rule6_active /\ NotNone(c.s.position) THEN
            IF current_price >= Val(c.s.position).entry + prof_amt
            THEN LET c1 == sell_callback(c, key, current_price, "RULE_6", t)
                 IN  Ret([c1 EXCEPT !.s.rule6_active = FALSE], TRUE)
            ELSE Ret(c, TRUE)
        ELSE
            LET c1 == IF trend = "down" THEN
                          IF IsNone(c.s.rule6_down_start)
                          THEN [c EXCEPT !.s.rule6_down_start = Some(t)]
                          ELSE IF ElapsedSeconds(t, Val(c.s.rule6_down_start))
                                  >= down_m * SecondsPerMinute
                          THEN [c EXCEPT !.s.rule6_ready_for_buy = TRUE]
                          ELSE c
                      ELSE IF ~c.s.rule6_ready_for_buy
                      THEN [c EXCEPT !.s.rule6_down_start = None]
                      ELSE c
            IN  IF c1.s.rule6_ready_for_buy /\ trend = "up"
                THEN LET c2 == [c1 EXCEPT !.s.rule6_ready_for_buy = FALSE,
                                          !.s.rule6_down_start = None]
                         c3 == IF IsNone(c2.s.position)
                               THEN buy_callback(c2, key, current_price, t) ELSE c2
                     IN  Ret([c3 EXCEPT !.s.rule6_active = TRUE], TRUE)
                ELSE Ret(c1, FALSE)

\* Rule 7 keeping its timer and ready flag through a non-up signal.
maybe_rule7_trade_keeps_timer(c, key, trend, current_price, up_minutes, t) ==
    LET up_s == Max(OrDefault(up_minutes, 30), 1)
    IN  IF c.s.rule7_active /\ NotNone(c.s.position) THEN Ret(c, FALSE)
        ELSE IF c.s.rule7_active /\ IsNone(c.s.position)
        THEN Ret([c EXCEPT !.s.rule7_active = FALSE,
                           !.s.rule7_up_start = None,
                           !.s.rule7_ready_for_buy = FALSE], FALSE)
        ELSE IF trend # "up"
        THEN Ret(c, FALSE)
        ELSE
            LET c1 == IF IsNone(c.s.rule7_up_start)
                      THEN [c EXCEPT !.s.rule7_up_start = Some(t)]
                      ELSE IF ElapsedSeconds(t, Val(c.s.rule7_up_start)) >= up_s
                      THEN [c EXCEPT !.s.rule7_ready_for_buy = TRUE]
                      ELSE c
            IN  IF c1.s.rule7_ready_for_buy /\ IsNone(c1.s.position)
                THEN LET c2 == [c1 EXCEPT !.s.rule7_ready_for_buy = FALSE,
                                          !.s.rule7_up_start = None]
                         c3 == buy_callback(c2, key, current_price, t)
                     IN  Ret([c3 EXCEPT !.s.rule7_active = TRUE], TRUE)
                ELSE Ret(c1, TRUE)

maybe_rule7_trade(c, key, trend, current_price, up_minutes, t) ==
    LET up_s == Max(OrDefault(up_minutes, 30), 1)
    IN  IF c.s.rule7_active /\ NotNone(c.s.position) THEN Ret(c, FALSE)
        ELSE IF c.s.rule7_active /\ IsNone(c.s.position)
        THEN Ret([c EXCEPT !.s.rule7_active = FALSE,
                           !.s.rule7_up_start = None,
                           !.s.rule7_ready_for_buy = FALSE], FALSE)
        ELSE IF trend # "up"
        THEN Ret([c EXCEPT !.s.rule7_up_start = None,
                           !.s.rule7_ready_for_buy = FALSE], FALSE)
        ELSE
            LET c1 == IF IsNone(c.s.rule7_up_start)
                      THEN [c EXCEPT !.s.rule7_up_start = Some(t)]
                      ELSE IF ElapsedSeconds(t, Val(c.s.rule7_up_start)) >= up_s
                      THEN [c EXCEPT !.s.rule7_ready_for_buy = TRUE]
                      ELSE c
            IN  IF c1.s.rule7_ready_for_buy /\ IsNone(c1.s.position)
                THEN LET c2 == [c1 EXCEPT !.s.rule7_ready_for_buy = FALSE,
                                          !.s.rule7_up_start = None]
                         c3 == buy_callback(c2, key, current_price, t)
                     IN  Ret([c3 EXCEPT !.s.rule7_active = TRUE], TRUE)
                ELSE Ret(c1, TRUE)

\* Rule 8 returning False while it holds a position below its target.
maybe_rule8_trade_lets_default_run(c, key, current_price, buy_offset, sell_offset, t) ==
    LET bo == IF NotNone(buy_offset) THEN Val(buy_offset) ELSE 25
        so == IF NotNone(sell_offset) THEN Val(sell_offset) ELSE 25
    IN  IF IsNone(c.s.position) THEN
            LET c1 == IF IsNone(c.s.rule8_watch_price)
                      THEN [c EXCEPT !.s.rule8_watch_price = Some(current_price)]
                      ELSE IF current_price > Val(c.s.rule8_watch_price)
                      THEN [c EXCEPT !.s.rule8_watch_price = Some(current_price)]
                      ELSE c
            IN  IF current_price <= Val(c1.s.rule8_watch_price) - bo
                THEN LET c2 == buy_callback(c1, key, current_price, t)
                     IN  Ret([c2 EXCEPT !.s.rule8_watch_price = None], TRUE)
                ELSE Ret(c1, TRUE)
        ELSE IF current_price >= Val(c.s.position).entry + so
        THEN LET c1 == sell_callback(c, key, current_price, "RULE_8", t)
             IN  Ret([c1 EXCEPT !.s.rule8_watch_price = None], TRUE)
        ELSE Ret(c, FALSE)

\* Rule 8 keeping its watch price after it bought.
maybe_rule8_trade_keeps_watch(c, key, current_price, buy_offset, sell_offset, t) ==
    LET bo == IF NotNone(buy_offset) THEN Val(buy_offset) ELSE 25
        so == IF NotNone(sell_offset) THEN Val(sell_offset) ELSE 25
    IN  IF IsNone(c.s.position) THEN
            LET c1 == IF IsNone(c.s.rule8_watch_price)
                      THEN [c EXCEPT !.s.rule8_watch_price = Some(current_price)]
                      ELSE IF current_price > Val(c.s.rule8_watch_price)
                      THEN [c EXCEPT !.s.rule8_watch_price = Some(current_price)]
                      ELSE c
            IN  IF current_price <= Val(c1.s.rule8_watch_price) - bo
                THEN LET c2 == buy_callback(c1, key, current_price, t)
                     IN  Ret(c2, TRUE)
                ELSE Ret(c1, TRUE)
        ELSE IF current_price >= Val(c.s.position).entry + so
        THEN LET c1 == sell_callback(c, key, current_price, "RULE_8", t)
             IN  Ret([c1 EXCEPT !.s.rule8_watch_price = None], TRUE)
        ELSE Ret(c, TRUE)

maybe_rule8_trade(c, key, current_price, buy_offset, sell_offset, t) ==
    LET bo == IF NotNone(buy_offset) THEN Val(buy_offset) ELSE 25
        so == IF NotNone(sell_offset) THEN Val(sell_offset) ELSE 25
    IN  IF IsNone(c.s.position) THEN
            LET c1 == IF IsNone(c.s.rule8_watch_price)
                      THEN [c EXCEPT !.s.rule8_watch_price = Some(current_price)]
                      ELSE IF current_price > Val(c.s.rule8_watch_price)
                      THEN [c EXCEPT !.s.rule8_watch_price = Some(current_price)]
                      ELSE c
            IN  IF current_price <= Val(c1.s.rule8_watch_price) - bo
                THEN LET c2 == buy_callback(c1, key, current_price, t)
                     IN  Ret([c2 EXCEPT !.s.rule8_watch_price = None], TRUE)
                ELSE Ret(c1, TRUE)
        ELSE IF current_price >= Val(c.s.position).entry + so
        THEN LET c1 == sell_callback(c, key, current_price, "RULE_8", t)
             IN  Ret([c1 EXCEPT !.s.rule8_watch_price = None], TRUE)
        ELSE Ret(c, TRUE)

\* Rule 9 still blocking when exactly the cooldown has elapsed.
maybe_rule9_trade_blocks_at_end(c, key, trend, current_price, amount, flips, window_minutes, t) ==
    LET cooldown_s == Max(OrDefault(window_minutes, 15), 1)
    IN  IF IsNone(c.s.position) /\ NotNone(c.s.rule9_last_sell_time)
           /\ ElapsedSeconds(t, Val(c.s.rule9_last_sell_time)) <= cooldown_s
        THEN Ret(c, TRUE)
        ELSE Ret(c, FALSE)

maybe_rule9_trade(c, key, trend, current_price, amount, flips, window_minutes, t) ==
    LET cooldown_s == Max(OrDefault(window_minutes, 15), 1)
    IN  IF IsNone(c.s.position) /\ NotNone(c.s.rule9_last_sell_time)
           /\ ElapsedSeconds(t, Val(c.s.rule9_last_sell_time)) < cooldown_s
        THEN Ret(c, TRUE)
        ELSE Ret(c, FALSE)

----------------------------------------------------------------------------
(* The signal dispatcher.  cfg carries the keyword arguments of one call:   *)
(* the set of enabled rules, auto, default_trade_enabled, each rule's       *)
(* parameters, in_hours, the answer is_trading_hours gives at the time of   *)
(* the call, and on_trade, how the on_trade callback ends during the call.  *)

Out(c, via) == [c |-> c, via |-> via]

\* The default strategy buying on every "up" of normal mode, long or flat.
DefaultStrategy_buy_when_long(c, key, trend, price, t) ==
    IF ~c.s.first_cycle_done /\ trend = "down" /\ IsNone(c.s.position)
    THEN [buy_callback(c, key, price, t) EXCEPT !.s.waiting_for_second_down = TRUE]
    ELSE IF ~c.s.first_cycle_done /\ trend = "up" /\ c.s.waiting_for_second_down
    THEN c
    ELSE IF ~c.s.first_cycle_done /\ trend = "down" /\ c.s.waiting_for_second_down
    THEN [sell_callback(c, key, price, NoReason, t) EXCEPT
              !.s.first_cycle_done = TRUE,
              !.s.waiting_for_second_down = FALSE]
    ELSE IF ~c.s.first_cycle_done /\ trend = "up" /\ IsNone(c.s.position)
    THEN buy_callback([c EXCEPT !.s.first_cycle_done = TRUE], key, price, t)
    ELSE IF trend = "up"
    THEN buy_callback(c, key, price, t)
    ELSE IF trend = "down" /\ NotNone(c.s.position)
    THEN LET win_reason == IF c.s.rule7_active THEN "RULE_7" ELSE NoReason
         IN  [sell_callback(c, key, price, win_reason, t) EXCEPT
                  !.s.rule7_active = FALSE]
    ELSE c

\* The default strategy leaving the bootstrap flags as they are on the
\* second "down".
DefaultStrategy_stays_in_first_cycle(c, key, trend, price, t) ==
    IF ~c.s.first_cycle_done /\ trend = "down" /\ IsNone(c.s.position)
    THEN [buy_callback(c, key, price, t) EXCEPT !.s.waiting_for_second_down = TRUE]
    ELSE IF ~c.s.first_cycle_done /\ trend = "up" /\ c.s.waiting_for_second_down
    THEN c
    ELSE IF ~c.s.first_cycle_done /\ trend = "down" /\ c.s.waiting_for_second_down
    THEN sell_callback(c, key, price, NoReason, t)
    ELSE IF ~c.s.first_cycle_done /\ trend = "up" /\ IsNone(c.s.position)
    THEN buy_callback([c EXCEPT !.s.first_cycle_done = TRUE], key, price, t)
    ELSE IF trend = "up" /\ IsNone(c.s.position)
    THEN buy_callback(c, key, price, t)
    ELSE IF trend = "down" /\ NotNone(c.s.position)
    THEN LET win_reason == IF c.s.rule7_active THEN "RULE_7" ELSE NoReason
         IN  [sell_callback(c, key, price, win_reason, t) EXCEPT
                  !.s.rule7_active = FALSE]
    ELSE c

\* First-cycle bootstrap, then normal mode.
\* A normal-mode buy that marks the position as one of Rule 7.
DefaultStrategy_marks_rule7(c, key, trend, price, t) ==
    IF ~c.s.first_cycle_done /\ trend = "down" /\ IsNone(c.s.position)
    THEN [buy_callback(c, key, price, t) EXCEPT !.s.waiting_for_second_down = TRUE]
    ELSE IF ~c.s.first_cycle_done /\ trend = "up" /\ c.s.waiting_for_second_down
    THEN c
    ELSE IF ~c.s.first_cycle_done /\ trend = "down" /\ c.s.waiting_for_second_down
    THEN [sell_callback(c, key, price, NoReason, t) EXCEPT
              !.s.first_cycle_done = TRUE,
              !.s.waiting_for_second_down = FALSE]
    ELSE IF ~c.s.first_cycle_done /\ trend = "up" /\ IsNone(c.s.position)
    THEN buy_callback([c EXCEPT !.s.first_cycle_done = TRUE], key, price, t)
    ELSE IF trend = "up" /\ IsNone(c.s.position)
    THEN [buy_callback(c, key, price, t) EXCEPT !.s.rule7_active = TRUE]
    ELSE IF trend = "down" /\ NotNone(c.s.position)
    THEN LET win_reason == IF c.s.rule7_active THEN "RULE_7" ELSE NoReason
         IN  [sell_callback(c, key, price, win_reason, t) EXCEPT
                  !.s.rule7_active = FALSE]
    ELSE c

\* Normal mode selling a long position on every trend but "up".
DefaultStrategy_sells_unless_up(c, key, trend, price, t) ==
    IF ~c.s.first_cycle_done /\ trend = "down" /\ IsNone(c.s.position)
    THEN [buy_callback(c, key, price, t) EXCEPT !.s.waiting_for_second_down = TRUE]
    ELSE IF ~c.s.first_cycle_done /\ trend = "up" /\ c.s.waiting_for_second_down
    THEN c
    ELSE IF ~c.s.first_cycle_done /\ trend = "down" /\ c.s.waiting_for_second_down
    THEN [sell_callback(c, key, price, NoReason, t) EXCEPT
              !.s.first_cycle_done = TRUE,
              !.s.waiting_for_second_down = FALSE]
    ELSE IF ~c.s.first_cycle_done /\ trend = "up" /\ IsNone(c.s.position)
    THEN buy_callback([c EXCEPT !.s.first_cycle_done = TRUE], key, price, t)
    ELSE IF trend = "up" /\ IsNone(c.s.position)
    THEN buy_callback(c, key, price, t)
    ELSE IF trend # "up" /\ NotNone(c.s.position)
    THEN LET win_reason == IF c.s.rule7_active THEN "RULE_7" ELSE NoReason
         IN  [sell_callback(c, key, price, win_reason, t) EXCEPT
                  !.s.rule7_active = FALSE]
    ELSE c

DefaultStrategy(c, key, trend, price, t) ==
    IF ~c.s.first_cycle_done /\ trend = "down" /\ IsNone(c.s.position)
    THEN [buy_callback(c, key, price, t) EXCEPT !.s.waiting_for_second_down = TRUE]
    ELSE IF ~c.s.first_cycle_done /\ trend = "up" /\ c.s.waiting_for_second_down
    THEN c
    ELSE IF ~c.s.first_cycle_done /\ trend = "down" /\ c.s.waiting_for_second_down
    THEN [sell_callback(c, key, price, NoReason, t) EXCEPT
              !.s.first_cycle_done = TRUE,
              !.s.waiting_for_second_down = FALSE]
    ELSE IF ~c.s.first_cycle_done /\ trend = "up" /\ IsNone(c.s.position)
    THEN buy_callback([c EXCEPT !.s.first_cycle_done = TRUE], key, price, t)
    ELSE IF trend = "up" /\ IsNone(c.s.position)
    THEN buy_callback(c, key, price, t)
    ELSE IF trend = "down" /\ NotNone(c.s.position)
    THEN LET win_reason == IF c.s.rule7_active THEN "RULE_7" ELSE NoReason
         IN  [sell_callback(c, key, price, win_reason, t) EXCEPT
                  !.s.rule7_active = FALSE]
    ELSE c

\* The default strategy as the interpreter runs it: the branch is chosen from
\* the state read by its condition, and its body runs afterwards on the
\* state as it is then.  Another thread can run between the two.
DefaultBranch(st, trend) ==
    IF ~st.first_cycle_done /\ trend = "down" /\ IsNone(st.position) THEN "first_down"
    ELSE IF ~st.first_cycle_done /\ trend = "up" /\ st.waiting_for_second_down THEN "ignore_up"
    ELSE IF ~st.first_cycle_done /\ trend = "down" /\ st.waiting_for_second_down THEN "second_down"
    ELSE IF ~st.first_cycle_done /\ trend = "up" /\ IsNone(st.position) THEN "first_up"
    ELSE IF trend = "up" /\ IsNone(st.position) THEN "buy"
    ELSE IF trend = "down" /\ NotNone(st.position) THEN "sell"
    ELSE "nothing"

DefaultBody(branch, c, key, price, t) ==
    CASE branch = "first_down" ->
            [buy_callback(c, key, price, t) EXCEPT !.s.waiting_for_second_down = TRUE]
      [] branch = "second_down" ->
            [sell_callback(c, key, price, NoReason, t) EXCEPT
                 !.s.first_cycle_done = TRUE,
                 !.s.waiting_for_second_down = FALSE]
      [] branch = "first_up" ->
            buy_callback([c EXCEPT !.s.first_cycle_done = TRUE], key, price, t)
      [] branch = "buy" -> buy_callback(c, key, price, t)
      [] branch = "sell" ->
            LET win_reason == IF c.s.rule7_active THEN "RULE_7" ELSE NoReason
            IN  [sell_callback(c, key, price, win_reason, t) EXCEPT
                     !.s.rule7_active = FALSE]
      [] OTHER -> c

\* One rule, called with the parameters the dispatcher passes it.
RunRule(n, c, key, trend, price, cfg, t) ==
    CASE n = 1 -> maybe_take_profit_sell(c, key, price, cfg.take_profit_amount, t)
      [] n = 2 -> maybe_stop_loss_sell(c, key, price, cfg.stop_loss_amount, t)
      [] n = 3 -> maybe_consecutive_drops_sell(c, key, price, cfg.rule_3_drop_count, t)
      [] n = 5 -> maybe_rule5_trade(c, key, trend, price, cfg.rule_5_down_minutes,
                                    cfg.rule_5_reversal_amount, cfg.rule_5_scalp_amount, t)
      [] n = 6 -> maybe_rule6_trade(c, key, trend, price, cfg.rule_6_down_minutes,
                                    cfg.rule_6_profit_amount, t)
      [] n = 7 -> maybe_rule7_trade(c, key, trend, price, cfg.rule_7_up_minutes, t)
      [] n = 8 -> maybe_rule8_trade(c, key, price, cfg.rule_8_buy_offset,
                                    cfg.rule_8_sell_offset, t)
      [] n = 9 -> maybe_rule9_trade(c, key, trend, price, cfg.rule_9_amount,
                                    cfg.rule_9_flips, cfg.rule_9_window_minutes, t)

RuleVia(n) ==
    CASE n = 1 -> "rule1" [] n = 2 -> "rule2" [] n = 3 -> "rule3"
      [] n = 5 -> "rule5" [] n = 6 -> "rule6" [] n = 7 -> "rule7"
      [] n = 8 -> "rule8" [] n = 9 -> "rule9"

\* The enabled rules among ns, in that order: the first that returns True
\* ends the call; a rule that returns False hands its state to the next.
RECURSIVE RunRules(_, _, _, _, _, _, _)
RECURSIVE AfterRule(_, _, _, _, _, _, _)
RunRules(ns, c, key, trend, price, cfg, t) ==
    IF ns = <<>> THEN Out(c, "pass")
    ELSE IF Head(ns) \notin cfg.rules
    THEN RunRules(Tail(ns), c, key, trend, price, cfg, t)
    ELSE AfterRule(RunRule(Head(ns), c, key, trend, price, cfg, t),
                   ns, key, trend, price, cfg, t)

\* A rule that returned True not ending the call: the rules after it run.
AfterRule_runs_the_rest(r, ns, key, trend, price, cfg, t) ==
    RunRules(Tail(ns), r.c, key, trend, price, cfg, t)

\* Only rules 1 to 3 ending the call when they return True.
AfterRule_sell_rules_only(r, ns, key, trend, price, cfg, t) ==
    IF r.ret /\ Head(ns) <= 3 THEN Out(r.c, RuleVia(Head(ns)))
    ELSE RunRules(Tail(ns), r.c, key, trend, price, cfg, t)

AfterRule(r, ns, key, trend, price, cfg, t) ==
    IF r.ret THEN Out(r.c, RuleVia(Head(ns)))
    ELSE RunRules(Tail(ns), r.c, key, trend, price, cfg, t)

\* Rules 1, 2, 3: evaluated whatever auto says; a sell ends the call.
SellRules(c, key, trend, price, cfg, t) ==
    RunRules(<<1, 2, 3>>, c, key, trend, price, cfg, t)

\* Rules 5 to 9 in that order: the first that returns True ends the call.
AutoRules(c, key, trend, price, cfg, t) ==
    RunRules(<<5, 6, 7, 8, 9>>, c, key, trend, price, cfg, t)

\* Step 7: the default strategy, when enabled.
AfterAutoRules(b, key, trend, price, cfg, t) ==
    IF b.via # "pass" THEN b
    ELSE IF cfg.default_trade_enabled
    THEN Out(DefaultStrategy(b.c, key, trend, price, t), "default")
    ELSE Out(b.c, "none")

\* The pipeline going on to rules 5 to 9 whatever auto says.
AfterSellRules_without_auto_gate(a, key, trend, price, cfg, t) ==
    IF a.via # "pass" THEN a
    ELSE IF 4 \in cfg.rules /\ ~cfg.in_hours THEN Out(a.c, "hours")
    ELSE AfterAutoRules(AutoRules(a.c, key, trend, price, cfg, t),
                        key, trend, price, cfg, t)

\* The pipeline stopping outside trading hours whether or not Rule 4 is
\* enabled.
AfterSellRules_hours_gate_always_on(a, key, trend, price, cfg, t) ==
    IF a.via # "pass" THEN a
    ELSE IF ~cfg.auto THEN Out(a.c, "not_auto")
    ELSE IF ~cfg.in_hours THEN Out(a.c, "hours")
    ELSE AfterAutoRules(AutoRules(a.c, key, trend, price, cfg, t),
                        key, trend, price, cfg, t)

\* Steps 4 to 6: the auto gate, the trading-hours gate, rules 5 to 9.
AfterSellRules(a, key, trend, price, cfg, t) ==
    IF a.via # "pass" THEN a
    ELSE IF ~cfg.auto THEN Out(a.c, "not_auto")
    ELSE IF 4 \in cfg.rules /\ ~cfg.in_hours THEN Out(a.c, "hours")
    ELSE AfterAutoRules(AutoRules(a.c, key, trend, price, cfg, t),
                        key, trend, price, cfg, t)

\* Steps 3 to 7 of on_signal, on the context of the key.
Dispatch(c, key, trend, price, cfg, t) ==
    AfterSellRules(SellRules(c, key, trend, price, cfg, t), key, trend, price, cfg, t)

\* TradingCore.generate_summary.  win_rate is in hundredths of a percent.
\* The bots dict is keyed by bot_id and the tickers dict by ticker: of the
\* states that share one, the last in the iteration order stays.
RECURSIVE SumSeq(_)
SumSeq(q) == IF q = <<>> THEN 0 ELSE q[1] + SumSeq(Tail(q))

RECURSIVE SumOver(_, _)
SumOver(bots, ks) ==
    IF ks = {} THEN 0
    ELSE LET k == CHOOSE k \in ks : TRUE
         IN  bots[k].total_pnl + SumOver(bots, ks \ {k})

ClosedProfits(h) == SelectSeq([i \in 1..Len(h) |-> h[i].profit], NotNone)

bot_summary(key, st) ==
    LET closed == ClosedProfits(st.trade_history)
        profits == [i \in 1..Len(closed) |-> Val(closed[i])]
        wins == Cardinality({i \in 1..Len(profits) : profits[i] > 0})
        losses == Cardinality({i \in 1..Len(profits) : profits[i] <= 0})
    IN  [bot_id |-> IF st.bot_id # <<>> THEN st.bot_id ELSE key,
         bot_name |-> st.bot_name,
         ticker |-> IF st.ticker # <<>> THEN st.ticker ELSE key,
         position |-> IF NotNone(st.position) THEN "long" ELSE "flat",
         entry_price |-> IF NotNone(st.position)
                         THEN Some(Val(st.position).entry) ELSE None,
         first_cycle_done |-> st.first_cycle_done,
         last_direction |-> st.last_direction,
         last_trade |-> IF st.trade_history # <<>>
                        THEN Some(st.trade_history[Len(st.trade_history)]) ELSE None,
         total_pnl |-> SumSeq(profits),
         wins |-> wins,
         losses |-> losses,
         win_rate |-> IF profits = <<>> THEN 0
                      ELSE (2 * 10000 * wins + Len(profits)) \div (2 * Len(profits)),
         trade_history |-> st.trade_history]

generate_summary(m, g) ==
    LET BotOf(k) == IF m[k].bot_id # <<>> THEN m[k].bot_id ELSE k
        TickerOf(k) == IF m[k].ticker # <<>> THEN m[k].ticker ELSE k
        Last(ks) == CHOOSE k \in ks : \A j \in ks : m[j].slot <= m[k].slot
        bots == [b \in {BotOf(k) : k \in DOMAIN m} |->
                    LET k == Last({j \in DOMAIN m : BotOf(j) = b})
                    IN  bot_summary(k, m[k])]
        plain == {k \in DOMAIN m : m[k].bot_id = <<>>}
        tickers == [tk \in {TickerOf(k) : k \in plain} |->
                    LET k == Last({j \in plain : TickerOf(j) = tk})
                    IN  bot_summary(k, m[k])]
    IN  [tickers |-> tickers,
         bots |-> bots,
         total_pnl_all_tickers |-> SumOver(bots, DOMAIN bots),
         all_trades |-> g]

\* What a call returns: the states map and the ledger it leaves, the step
\* of the pipeline that ended it, and the summary.
Returned(m, g, via, sent) ==
    [m |-> m, g |-> g, via |-> via, sent |-> sent,
     summary |-> generate_summary(m, g)]

\* The state of the key after the call, put back in the map.
Stored(m, key, r) == Returned([m EXCEPT ![key] = r.c.s], r.c.g, r.via, r.c.sent)

on_signal_state(m, g, key, trend, price, cfg, t) ==
    Stored(m, key, Dispatch(Context(m[key], g, cfg.on_trade), key, trend, price, cfg, t))

on_signal_parsed(m, g, trend, price, tk, key, bot_id, bot_name, cfg, t) ==
    IF IsNone(price) \/ tk = <<>>
    THEN Returned(m, g, "rejected", <<>>)
    ELSE on_signal_state(get_or_create(m, key, tk, bot_id, bot_name), g, key,
                         trend, Val(price), cfg, t)

on_signal(m, g, trend, price_str, ticker, bot_id, bot_name, cfg, t) ==
    on_signal_parsed(m, g, trend, parse_price(price_str), normalize_ticker(ticker),
                     make_state_key(bot_id, ticker), normalize_bot_id(bot_id),
                     bot_name, cfg, t)

\* manual_toggle: buys if flat, sells if long, past every rule.
\* A toggle that waits for the bootstrap to be complete.
manual_toggle_trade_after_bootstrap(c, key, price, t) ==
    IF ~c.s.first_cycle_done THEN c
    ELSE IF IsNone(c.s.position)
    THEN buy_callback(c, key, price, t)
    ELSE sell_callback(c, key, price, NoReason, t)

manual_toggle_trade(c, key, price, t) ==
    IF IsNone(c.s.position)
    THEN buy_callback(c, key, price, t)
    ELSE sell_callback(c, key, price, NoReason, t)

manual_toggle_state(m, g, key, price, on_trade, t) ==
    Stored(m, key, Out(manual_toggle_trade(Context(m[key], g, on_trade), key, price, t),
                       "manual"))

manual_toggle_parsed(m, g, price, tk, key, bot_id, bot_name, on_trade, t) ==
    IF IsNone(price) \/ tk = <<>>
    THEN Returned(m, g, "rejected", <<>>)
    ELSE manual_toggle_state(get_or_create(m, key, tk, bot_id, bot_name), g, key,
                             Val(price), on_trade, t)

manual_toggle(m, g, price_str, ticker, bot_id, bot_name, on_trade, t) ==
    manual_toggle_parsed(m, g, parse_price(price_str), normalize_ticker(ticker),
                         make_state_key(bot_id, ticker), normalize_bot_id(bot_id),
                         bot_name, on_trade, t)

\* float(price) as the manual trade route applies it: a number as it is, a
\* string as float() reads it (None stands for the exception).
PyFloat(price) ==
    IF price.kind = "num" THEN Some(price.val)
    ELSE IF price.kind = "str" THEN PyFloatCents(Strip(price.chars))
    ELSE None

\* api_manual_trade with an explicit buy or sell direction: the trade is
\* recorded directly in the simulator; when that raises (a price float()
\* does not read, a ticker the simulator does not track) the direction is
\* mapped to a trend and signalled with the default arguments.
api_manual_trade(m, g, direction, price, ticker, cfg, t) ==
    LET key == normalize_ticker(ticker)
        p == PyFloat(price)
    IN  IF IsNone(p) \/ (key # <<>> /\ key \notin DOMAIN m)
        THEN on_signal(m, g, IF direction = "buy" THEN "up" ELSE "down",
                       price, ticker, <<>>, <<>>, cfg, t)
        ELSE IF key = <<>> THEN Returned(m, g, direction, <<>>)
        ELSE IF direction = "buy"
        THEN Stored(m, key, Out(buy_callback(Context(m[key], g, cfg.on_trade),
                                             key, Val(p), t), direction))
        ELSE Stored(m, key, Out(sell_callback(Context(m[key], g, cfg.on_trade),
                                              key, Val(p), NoReason, t), direction))

\* api_close_all_positions: every open position is sold at its entry price
\* with the tag INCOMPLETE, in the order of the states dict.
RECURSIVE CloseAll(_, _, _, _)
CloseAll(m, g, ks, t) ==
    IF ks = {} THEN [m |-> m, g |-> g]
    ELSE LET k == CHOOSE k \in ks : \A j \in ks : m[k].slot <= m[j].slot
             c == IF NotNone(m[k].position)
                  THEN sell(Context(m[k], g, "ok"), k, Val(m[k].position).entry,
                            "INCOMPLETE", t)
                  ELSE Context(m[k], g, "ok")
         IN  CloseAll([m EXCEPT ![k] = c.s], c.g, ks \ {k}, t)

api_close_all_positions(m, g, t) == CloseAll(m, g, DOMAIN m, t)

\* StateManager.delete
delete(m, key) == [k \in DOMAIN m \ {key} |-> m[k]]

\* The ledger without the records of one bot.
RECURSIVE WithoutBot(_, _)
WithoutBot(g, bot_id) ==
    IF g = <<>> THEN <<>>
    ELSE IF g[1].bot_id = bot_id THEN WithoutBot(Tail(g), bot_id)
    ELSE <<g[1]>> \o WithoutBot(Tail(g), bot_id)

\* TradingCore.clear_bot: the state is deleted when a state key is given,
\* the ledger filtered when a bot_id is given; ticker is not used.
\* A reset that drops every state of the bot along with the named key.
clear_bot_every_key_of_bot(m, g, bot_id, ticker, state_key) ==
    [m |-> [k \in {j \in DOMAIN m : j # state_key /\ m[j].bot_id # bot_id} |-> m[k]],
     g |-> IF bot_id # <<>> THEN WithoutBot(g, bot_id) ELSE g]

clear_bot(m, g, bot_id, ticker, state_key) ==
    [m |-> IF state_key # <<>> THEN delete(m, state_key) ELSE m,
     g |-> IF bot_id # <<>> THEN WithoutBot(g, bot_id) ELSE g]

\* TradingCore.clear_all with StateManager.clear_all
\* A reset that forgets the states and keeps the ledger.
clear_all_keeps_ledger(m, g) == [m |-> <<>>, g |-> g]

clear_all(m, g) == [m |-> <<>>, g |-> <<>>]

\* clear_bot(bot_id, ticker) as the owner of a bot calls it: the state key
\* is the one on_signal derives from the same bot_id and ticker.
clear_bot_of_key(m, g, bot_id, ticker) ==
    clear_bot(m, g, normalize_bot_id(bot_id), normalize_ticker(ticker),
              make_state_key(bot_id, ticker))

----------------------------------------------------------------------------
(* Inputs.  A session fixes the family of configurations its calls draw    *)
(* from (the bot settings ws/broadcaster.py reads before each call), the   *)
(* inputs fed to it and how long it runs.                                  *)

BaseCfg ==
    [rules |-> {}, auto |-> TRUE, default_trade_enabled |-> TRUE, in_hours |-> TRUE,
     on_trade |-> "ok",
     take_profit_amount |-> Some(100),
     stop_loss_amount |-> Some(100),
     rule_3_drop_count |-> Some(2),
     rule_5_down_minutes |-> Some(1),
     rule_5_reversal_amount |-> Some(100),
     rule_5_scalp_amount |-> Some(100),
     rule_6_down_minutes |-> Some(1),
     rule_6_profit_amount |-> Some(100),
     rule_7_up_minutes |-> Some(30),
     rule_8_buy_offset |-> Some(100),
     rule_8_sell_offset |-> Some(100),
     rule_9_amount |-> None,
     rule_9_flips |-> None,
     rule_9_window_minutes |-> Some(60)]

WithRules(rs) == [BaseCfg EXCEPT !.rules = rs]

P1 == PyStr(<<"1">>)
P2 == PyStr(<<"$", "2">>)
P3 == PyNum(300)
BadPrices == {PyStr(<<"x">>), PyNum(0)}

Ticker == <<"a">>
Key == <<"A">>

Sessions ==
    {"default", "sell", "r5", "r6", "r7", "r8", "r9", "all", "bots", "failing",
     "admin", "api"}

\* The sessions made of on_signal and manual_toggle calls only.
SignalSessions == Sessions \ {"admin", "api"}

\* The arguments of an on_signal call made by the manual trade route.
RouteCfg == WithRules({4})

Family(sess) ==
    CASE sess = "default" ->
            [cfgs |-> {BaseCfg,
                       [BaseCfg EXCEPT !.auto = FALSE],
                       [BaseCfg EXCEPT !.default_trade_enabled = FALSE],
                       [WithRules({4}) EXCEPT !.in_hours = FALSE]},
             trends |-> {"up", "down", ""},
             prices |-> {P1, P2} \cup BadPrices,
             tickers |-> {Ticker, <<" ">>},
             manual |-> TRUE, extra |-> 0]
      [] sess = "sell" ->
            [cfgs |-> {WithRules({1}), WithRules({2}), WithRules({3}),
                       [WithRules({1, 2, 3}) EXCEPT !.auto = FALSE]},
             trends |-> {"up", "down"},
             prices |-> {P1, P2, P3},
             tickers |-> {Ticker},
             manual |-> TRUE, extra |-> 0]
      [] sess = "r5" ->
            [cfgs |-> {WithRules({5})},
             trends |-> {"up", "down"}, prices |-> {P1, P2},
             tickers |-> {Ticker}, manual |-> FALSE, extra |-> 2]
      [] sess = "r6" ->
            [cfgs |-> {WithRules({6})},
             trends |-> {"up", "down"}, prices |-> {P1, P2},
             tickers |-> {Ticker}, manual |-> FALSE, extra |-> 1]
      [] sess = "r7" ->
            [cfgs |-> {WithRules({7}), WithRules({1, 7})},
             trends |-> {"up", "down"}, prices |-> {P1, P2},
             tickers |-> {Ticker}, manual |-> TRUE, extra |-> 0]
      [] sess = "r8" ->
            [cfgs |-> {WithRules({8}), WithRules({8, 9}),
                       [WithRules({8}) EXCEPT !.rule_8_buy_offset = Some(0)]},
             trends |-> {"up", "down"}, prices |-> {P1, P2},
             tickers |-> {Ticker}, manual |-> FALSE, extra |-> 1]
      [] sess = "r9" ->
            [cfgs |-> {WithRules({9}), WithRules({1, 9})},
             trends |-> {"up", "down"}, prices |-> {P1, P2},
             tickers |-> {Ticker}, manual |-> TRUE, extra |-> 0]
      [] sess = "all" ->
            [cfgs |-> {WithRules(1..9)},
             trends |-> {"up", "down"}, prices |-> {P1, P2, P3},
             tickers |-> {Ticker}, manual |-> FALSE, extra |-> 1]
      [] sess = "bots" ->
            [cfgs |-> {BaseCfg},
             trends |-> {"up", "down"}, prices |-> {P1, P2},
             tickers |-> {Ticker, <<"b">>}, manual |-> FALSE, extra |-> 0]
      [] sess = "admin" ->
            [cfgs |-> {BaseCfg},
             trends |-> {"down"}, prices |-> {P1},
             tickers |-> {Ticker, <<"b">>}, manual |-> FALSE, extra |-> 0]
      [] sess = "failing" ->
            [cfgs |-> {[BaseCfg EXCEPT !.on_trade = "raises"],
                       [WithRules({1, 2, 3}) EXCEPT !.on_trade = "raises"]},
             trends |-> {"up", "down"}, prices |-> {P1, P2},
             tickers |-> {Ticker}, manual |-> TRUE, extra |-> 0]
      [] sess = "api" ->
            [cfgs |-> {BaseCfg},
             trends |-> {"up", "down"}, prices |-> {P1, P2},
             tickers |-> {Ticker}, manual |-> FALSE, extra |-> 0]

\* The (bot_id, ticker) pairs a session trades: one bot with two tickers next
\* to a ticker without bot in "bots" and "admin", and a second bot on the
\* first ticker in "bots"; tickers without bot elsewhere.
Entities(sess) ==
    IF sess \in {"bots", "admin"}
    THEN {<<<<"x">>, Ticker>>, <<<<"x">>, <<"b">>>>, <<<<>>, Ticker>>}
         \cup (IF sess = "bots" THEN {<<<<"y">>, Ticker>>} ELSE {})
    ELSE {<<<<>>, tk>> : tk \in Family(sess).tickers}

\* How the on_trade callback ends in a session.
OnTrade(sess) == IF sess = "failing" THEN "raises" ELSE "ok"

\* The bot names the caller passes: a bot may be named after its first signal.
BotNames(sess) == IF sess = "api" THEN {<<>>, <<"n">>} ELSE {<<>>}

\* The prices the manual trade route is given.
RoutePrices == {PyNum(100), PyNum(200), P2}

----------------------------------------------------------------------------
(* The state machine.  A rejected call returns before the clock is read.   *)

Init ==
    /\ now = 0
    /\ states = <<>>
    /\ trade_history = <<>>
    /\ last_call = [op |-> "init", via |-> "init"]
    /\ on_trade_calls = <<>>
    /\ session \in Sessions
    /\ in_progress = <<>>
    /\ hours_call = <<>>

\* The call op returned r: its effect on the engine.
Called(op, r) ==
    /\ states' = r.m
    /\ trade_history' = r.g
    /\ last_call' = [op |-> op, via |-> r.via]
    /\ on_trade_calls' = r.sent
    /\ now' = IF r.via = "rejected" THEN now ELSE now + 1
    /\ UNCHANGED <<session, in_progress, hours_call>>

\* An administrative reset returned r; it does not read the clock.
Cleared(op, r) ==
    /\ states' = r.m
    /\ trade_history' = r.g
    /\ last_call' = [op |-> op, via |-> op]
    /\ on_trade_calls' = <<>>
    /\ UNCHANGED <<now, session, in_progress, hours_call>>

OnSignal ==
    \E cfg \in Family(session).cfgs, trend \in Family(session).trends,
       price_str \in Family(session).prices, e \in Entities(session),
       bot_name \in BotNames(session) :
        /\ now + 1 <= MaxTime + Family(session).extra
        /\ Len(trade_history) + 2 <= MaxTrades + Family(session).extra
        /\ Called("on_signal",
                  on_signal(states, trade_history, trend, price_str, e[2],
                            e[1], bot_name, cfg, now + 1))

ManualToggle ==
    \E price_str \in Family(session).prices, e \in Entities(session) :
        /\ Family(session).manual
        /\ now + 1 <= MaxTime + Family(session).extra
        /\ Len(trade_history) + 1 <= MaxTrades + Family(session).extra
        /\ Called("manual_toggle",
                  manual_toggle(states, trade_history, price_str, e[2],
                                e[1], <<>>, OnTrade(session), now + 1))

\* The manual trade route, hit with an explicit direction.
ApiManualTrade ==
    \E direction \in {"buy", "sell"}, price \in RoutePrices,
       e \in Entities(session), in_hours \in BOOLEAN :
        /\ session = "api"
        /\ now + 1 <= MaxTime + Family(session).extra
        /\ Len(trade_history) + 1 <= MaxTrades + Family(session).extra
        /\ Called("manual_trade",
                  api_manual_trade(states, trade_history, direction, price, e[2],
                                   [RouteCfg EXCEPT !.in_hours = in_hours],
                                   now + 1))

ClearBot ==
    \E e \in Entities(session) :
        /\ session = "admin"
        /\ Cleared("clear_bot",
                   clear_bot_of_key(states, trade_history, e[1], e[2]))

ClearAll ==
    /\ session \in {"admin", "bots"}
    /\ Cleared("clear_all", clear_all(states, trade_history))

Next ==
    \/ OnSignal
    \/ ManualToggle
    \/ ApiManualTrade
    \/ ClearBot
    \/ ClearAll

Spec == Init /\ [][Next]_vars

----------------------------------------------------------------------------
(* The broadcaster loop next to the request handlers.  broadcaster_loop is  *)
(* a task of the event loop and calls on_signal from its thread; the       *)
(* routes manual_trade and close_all_positions are plain functions, which  *)
(* the server runs in worker threads.  No lock guards the trader, so a      *)
(* handler can run between two steps of an on_signal call: after the       *)
(* strategy has picked its branch, and after TradingCore.sell has read     *)
(* state.position and before it writes it.                                 *)

RacePrices == {P1, P2}
RouteNumbers == {PyNum(100), PyNum(200)}

InitRace ==
    /\ now = 0
    /\ states = <<>>
    /\ trade_history = <<>>
    /\ last_call = [op |-> "init", via |-> "init"]
    /\ on_trade_calls = <<>>
    /\ session = "race"
    /\ in_progress = <<>>
    /\ hours_call = <<>>

\* on_signal of the loop reads the state and picks its branch.
LoopBegins ==
    \E trend \in {"up", "down"}, price_str \in RacePrices :
        /\ in_progress = <<>>
        /\ now + 1 <= MaxTime
        /\ Len(trade_history) + 1 <= MaxTrades
        /\ states' = get_or_create(states, Key, Key, <<>>, <<>>)
        /\ in_progress' = Some([trend |-> trend, price |-> Val(parse_price(price_str)),
                                branch |-> DefaultBranch(states'[Key], trend),
                                pos |-> None])
        /\ last_call' = [op |-> "on_signal", via |-> "begun"]
        /\ UNCHANGED <<now, trade_history, on_trade_calls, session, hours_call>>

\* The loop's call has entered TradingCore.sell and read state.position
\* into pos.
LoopSellReads ==
    /\ in_progress # <<>>
    /\ Val(in_progress).branch \in {"sell", "second_down"}
    /\ IsNone(Val(in_progress).pos)
    /\ Key \in DOMAIN states
    /\ in_progress' = Some([Val(in_progress) EXCEPT !.pos = Some(states[Key].position)])
    /\ UNCHANGED <<now, states, trade_history, last_call, on_trade_calls, session,
                   hours_call>>

\* on_signal of the loop runs the body of the branch it picked and returns.
\* A sell that has read pos goes on with the position it read.
LoopEnds ==
    /\ in_progress # <<>>
    /\ LET call == Val(in_progress)
           st == IF IsNone(call.pos) THEN states[Key]
                 ELSE [states[Key] EXCEPT !.position = Val(call.pos)]
           c == IF Key \in DOMAIN states
                THEN DefaultBody(call.branch, Context(st, trade_history, "ok"),
                                 Key, call.price, now + 1)
                ELSE Context(TickerState(Key, <<>>, <<>>), trade_history, "ok")
       IN  /\ states' = IF Key \in DOMAIN states
                         THEN [states EXCEPT ![Key] = c.s] ELSE states
           /\ trade_history' = c.g
           /\ on_trade_calls' = c.sent
    /\ last_call' = [op |-> "on_signal", via |-> "default"]
    /\ now' = now + 1
    /\ in_progress' = <<>>
    /\ UNCHANGED <<session, hours_call>>

\* A request handler ran to its end in a worker thread.
Handled(op, m, g) ==
    /\ now + 1 <= MaxTime
    /\ states' = m
    /\ trade_history' = g
    /\ last_call' = [op |-> op, via |-> IF in_progress = <<>> THEN "alone" ELSE "during"]
    /\ on_trade_calls' = <<>>
    /\ now' = now + 1
    /\ UNCHANGED <<session, in_progress, hours_call>>

HandlerManualTrade ==
    \E direction \in {"buy", "sell"}, price \in RouteNumbers :
        /\ Len(trade_history) + 1 <= MaxTrades
        /\ LET r == api_manual_trade(states, trade_history, direction, price,
                                     Ticker, RouteCfg, now + 1)
           IN  Handled("manual_trade", r.m, r.g)

HandlerCloseAll ==
    LET r == api_close_all_positions(states, trade_history, now + 1)
    IN  Handled("close_all_positions", r.m, r.g)

NextRace ==
    \/ LoopBegins
    \/ LoopSellReads
    \/ LoopEnds
    \/ HandlerManualTrade
    \/ HandlerCloseAll

SpecRace == InitRace /\ [][NextRace]_vars

----------------------------------------------------------------------------
(* Properties *)

\* The index of the buy that opened the position the record at i closed:
\* the last buy of the same bot and ticker before i (0 when there is none).
OpeningBuy(h, i) ==
    LET bs == {j \in 1..(i - 1) : /\ h[j].direction = "buy"
                                   /\ h[j].bot_id = h[i].bot_id
                                   /\ h[j].ticker = h[i].ticker}
    IN  IF bs = {} THEN 0 ELSE CHOOSE j \in bs : \A l \in bs : l <= j

\* The histories that pair each sell with a buy: every key's, and the global
\* ledger as long as no administrative reset has removed records from it.
Histories ==
    {states[k].trade_history : k \in DOMAIN states}
    \cup (IF session = "admin" THEN {} ELSE {trade_history})

LastRecord == trade_history[Len(trade_history)]

\* C1: after any sequence of on_signal and manual_toggle calls, every sell
\* record carries the trade_id of the buy record that opened the position it
\* closed, which is the trade_id the position stored at buy time.
C1_SellInheritsTradeId ==
    /\ \A h \in Histories : \A i \in 1..Len(h) :
          h[i].direction = "sell" =>
             /\ OpeningBuy(h, i) # 0
             /\ h[i].trade_id = h[OpeningBuy(h, i)].trade_id
    /\ \A k \in DOMAIN states :
          LET h == states[k].trade_history
          IN  NotNone(states[k].position) =>
                 /\ h # <<>>
                 /\ h[Len(h)].direction = "buy"
                 /\ Val(states[k].position).trade_id = h[Len(h)].trade_id

\* A second cycle was closed, by a sell made later than its buy.
C1_Witness ==
    /\ Len(trade_history) >= 4
    /\ LastRecord.direction = "sell"
    /\ LastRecord.trade_id # LastRecord.ts
    /\ LastRecord.trade_id # trade_history[1].trade_id

\* C2: for every key, whatever the rule flags and parameters of the on_signal
\* (and manual_toggle) calls, no buy is executed while the position is open: the key's history
\* alternates buy, sell, buy, ... starting with a buy, and the position is
\* open exactly after a buy.
C2_NoBuyWhileLong ==
    session \in SignalSessions =>
    \A k \in DOMAIN states :
        LET h == states[k].trade_history
        IN  /\ \A i \in 1..Len(h) :
                  h[i].direction = (IF i % 2 = 1 THEN "buy" ELSE "sell")
            /\ NotNone(states[k].position) <=> (Len(h) % 2 = 1)

\* A rule of on_signal, with every rule enabled, reopened a position.
C2_Witness ==
    /\ session = "all"
    /\ last_call.op = "on_signal"
    /\ Len(trade_history) >= 3
    /\ LastRecord.direction = "buy"

\* C3: every sell record's profit is its price minus the price of the buy
\* record it is paired with, and every buy record's profit is None, whoever
\* issued the sell.
C3_ProfitIsPriceMinusEntry ==
    \A h \in Histories : \A i \in 1..Len(h) :
        /\ h[i].direction = "buy" => h[i].profit = None
        /\ h[i].direction = "sell" =>
              /\ OpeningBuy(h, i) # 0
              /\ h[i].profit = Some(h[i].price - h[OpeningBuy(h, i)].price)

\* Rule 3 sold at a loss after the price had moved away from the entry.
C3_Witness ==
    /\ last_call.via = "rule3"
    /\ LastRecord.direction = "sell"
    /\ LastRecord.profit = Some(-200)
    /\ LastRecord.price = 100

\* The inputs the properties below feed to one more call made from a
\* reachable state.
Trends == {"up", "down", ""}

ValidPrices == {P1, P2, P3}

PriceOf(price_str) == Val(parse_price(price_str))

UnparsablePrices ==
    {PyNone, PyNum(0), PyStr(<<>>), PyStr(<<"x">>), PyStr(<<"$", " ">>),
     PyStr(<<"1", ".", "2", ".", "3">>)}

EmptyTickers == {<<>>, <<" ">>}

RejectedInputs ==
    {<<p, Ticker>> : p \in UnparsablePrices}
    \cup {<<P1, e>> : e \in EmptyTickers}
    \cup {<<PyStr(<<"x">>), <<>>>>}

NewRecords(r) == SubSeq(r.g, Len(trade_history) + 1, Len(r.g))

Signal(trend, price_str, ticker, cfg) ==
    on_signal(states, trade_history, trend, price_str, ticker, <<>>, <<>>, cfg, now + 1)

\* C4: on_signal with an unparsable price or an empty ticker, with any
\* flags, changes nothing: no TickerState is created or modified, no record
\* is appended to any history or to the global ledger, and the current
\* summary is returned (so any number of such calls changes nothing).
C4_RejectedSignalChangesNothing ==
    \A cfg \in {BaseCfg, WithRules(1..9), [WithRules({1, 2, 3}) EXCEPT !.auto = FALSE]},
       trend \in {"up", "down"}, in \in RejectedInputs :
        LET r == Signal(trend, in[1], in[2], cfg)
        IN  /\ r.m = states
            /\ r.g = trade_history
            /\ r.summary = generate_summary(states, trade_history)

\* on_signal rejected its input while a position was open.
C4_Witness ==
    /\ last_call = [op |-> "on_signal", via |-> "rejected"]
    /\ Key \in DOMAIN states
    /\ NotNone(states[Key].position)

\* C5: for a fresh key with only the default strategy active, a first "down"
\* buys and sets waiting_for_second_down; a following "up" is ignored (no
\* trade, position kept); the next "down" sells that position, sets
\* first_cycle_done and clears waiting_for_second_down; a following "up" buys.
C5_DefaultBootstrap ==
    \A p1 \in {P1, P2}, p2 \in {P3}, p3 \in {P1, P2}, p4 \in {P1, P2} :
        LET tk == <<"b">>
            k == <<"B">>
            r1 == on_signal(states, trade_history, "down", p1, tk, <<>>, <<>>,
                            BaseCfg, now + 1)
            r2 == on_signal(r1.m, r1.g, "up", p2, tk, <<>>, <<>>, BaseCfg, now + 2)
            r3 == on_signal(r2.m, r2.g, "down", p3, tk, <<>>, <<>>, BaseCfg, now + 3)
            r4 == on_signal(r3.m, r3.g, "up", p4, tk, <<>>, <<>>, BaseCfg, now + 4)
            n == Len(trade_history)
        IN  /\ k \notin DOMAIN states
            /\ Len(r1.g) = n + 1
            /\ r1.g[n + 1].direction = "buy" /\ r1.g[n + 1].price = PriceOf(p1)
            /\ NotNone(r1.m[k].position)
            /\ Val(r1.m[k].position).entry = PriceOf(p1)
            /\ r1.m[k].waiting_for_second_down
            /\ ~r1.m[k].first_cycle_done
            /\ r2.g = r1.g /\ r2.m = r1.m
            /\ Len(r3.g) = n + 2
            /\ r3.g[n + 2].direction = "sell" /\ r3.g[n + 2].price = PriceOf(p3)
            /\ r3.g[n + 2].profit = Some(PriceOf(p3) - PriceOf(p1))
            /\ IsNone(r3.m[k].position)
            /\ r3.m[k].first_cycle_done
            /\ ~r3.m[k].waiting_for_second_down
            /\ Len(r4.g) = n + 3
            /\ r4.g[n + 3].direction = "buy" /\ r4.g[n + 3].price = PriceOf(p4)
            /\ NotNone(r4.m[k].position)
            /\ Val(r4.m[k].position).entry = PriceOf(p4)
            /\ r4.m[k].trade_history = SubSeq(r4.g, n + 1, n + 3)

\* The four signals were fed to the key of the session with the default
\* strategy: bought at 1, nothing at 2, sold at 3, bought again at 4.
C5_Witness ==
    /\ session = "default"
    /\ last_call = [op |-> "on_signal", via |-> "default"]
    /\ now = 4
    /\ Len(trade_history) = 3
    /\ trade_history[1].direction = "buy" /\ trade_history[1].ts = 1
    /\ trade_history[2].direction = "sell" /\ trade_history[2].ts = 3
    /\ trade_history[3].direction = "buy" /\ trade_history[3].ts = 4
    /\ states[Key].first_cycle_done
    /\ ~states[Key].waiting_for_second_down

KeyLong == Key \in DOMAIN states /\ NotNone(states[Key].position)

KeyFlat == Key \notin DOMAIN states \/ IsNone(states[Key].position)

Tagged(new, tag) == {i \in 1..Len(new) : new[i].win_reason = tag}

\* One sell record, with this tag and price, closed the position of Key.
SoldBy(r, tag, p) ==
    LET new == NewRecords(r)
    IN  /\ Len(new) = 1
        /\ new[1].direction = "sell"
        /\ new[1].win_reason = tag
        /\ new[1].price = p
        /\ IsNone(r.m[Key].position)

\* C6: with Rule 1 enabled and take_profit_amount A > 0, a long key is sold
\* by Rule 1 exactly when the signal price is >= entry + A; that sell is
\* tagged TAKE_PROFIT_RULE_1 and has profit >= A, and a lower price never
\* produces a TAKE_PROFIT_RULE_1 sell.
C6_TakeProfitAtTarget ==
    KeyLong =>
    \A cfg0 \in {WithRules({1}), WithRules(1..9),
                 [WithRules({1, 2, 3}) EXCEPT !.auto = FALSE],
                 [WithRules({1, 4}) EXCEPT !.in_hours = FALSE]},
       A \in {100, 200}, trend \in {"up", "down"}, price_str \in ValidPrices :
        LET cfg == [cfg0 EXCEPT !.take_profit_amount = Some(A)]
            entry == Val(states[Key].position).entry
            p == PriceOf(price_str)
            r == Signal(trend, price_str, Ticker, cfg)
        IN  IF p >= entry + A
            THEN /\ r.via = "rule1"
                 /\ SoldBy(r, "TAKE_PROFIT_RULE_1", p)
                 /\ Val(NewRecords(r)[1].profit) >= A
            ELSE /\ r.via # "rule1"
                 /\ Tagged(NewRecords(r), "TAKE_PROFIT_RULE_1") = {}

\* Rule 1 sold exactly at entry + A.
C6_Witness ==
    /\ last_call = [op |-> "on_signal", via |-> "rule1"]
    /\ LastRecord.win_reason = "TAKE_PROFIT_RULE_1"
    /\ LastRecord.profit = Some(100)

\* C7: with Rule 2 enabled and stop_loss_amount S (negative or missing S
\* treated as 0), a long key is sold by Rule 2 exactly when the signal price
\* is <= entry - S; that sell is tagged STOP_LOSS_RULE_2 and has
\* profit <= -S.
C7_StopLossAtStop ==
    KeyLong =>
    \A cfg0 \in {WithRules({2}), WithRules(1..9),
                 [WithRules({1, 2, 3}) EXCEPT !.auto = FALSE]},
       S \in {None, Some(-100), Some(100)}, trend \in {"up", "down"},
       price_str \in ValidPrices :
        LET cfg == [cfg0 EXCEPT !.stop_loss_amount = S]
            stop == IF IsNone(S) THEN 0 ELSE IF Val(S) < 0 THEN 0 ELSE Val(S)
            entry == Val(states[Key].position).entry
            p == PriceOf(price_str)
            r == Signal(trend, price_str, Ticker, cfg)
        IN  IF p <= entry - stop
            THEN /\ r.via = "rule2"
                 /\ SoldBy(r, "STOP_LOSS_RULE_2", p)
                 /\ Val(NewRecords(r)[1].profit) <= -stop
            ELSE /\ r.via # "rule2"
                 /\ Tagged(NewRecords(r), "STOP_LOSS_RULE_2") = {}

\* Rule 2 sold exactly at entry - S.
C7_Witness ==
    /\ last_call = [op |-> "on_signal", via |-> "rule2"]
    /\ LastRecord.win_reason = "STOP_LOSS_RULE_2"
    /\ LastRecord.profit = Some(-100)

\* C8: with Rule 3 enabled and drop_count_required N > 0, while long a price
\* below the previous one increments drop_count, a higher one resets it to 0
\* and an equal one leaves it unchanged, the entry price being the first
\* reference; when drop_count reaches N the position is sold with tag
\* CONSECUTIVE_DROPS_RULE_3 and drop_count is 0 afterwards; while flat Rule 3
\* trades nothing.  (A call that Rule 1 or Rule 2 ends does not reach Rule 3.)
C8_ConsecutiveDrops ==
    /\ \A k \in DOMAIN states :
          LET st == states[k]
              h == st.trade_history
          IN  /\ NotNone(st.position) => NotNone(st.last_price)
              /\ (h # <<>> /\ h[Len(h)].direction = "buy" /\ h[Len(h)].ts = now) =>
                    /\ st.last_price = Some(Val(st.position).entry)
                    /\ st.drop_count = 0
    /\ \A cfg0 \in {[WithRules({3}) EXCEPT !.auto = FALSE], WithRules({3}),
                    WithRules(1..9)},
          N \in {1, 2, 3}, trend \in {"up", "down"}, price_str \in ValidPrices :
          LET cfg == [cfg0 EXCEPT !.rule_3_drop_count = Some(N)]
              p == PriceOf(price_str)
              r == Signal(trend, price_str, Ticker, cfg)
              post == r.m[Key]
          IN  IF KeyLong
              THEN LET pre == states[Key]
                       last == Val(pre.last_price)
                       dc == IF p < last THEN pre.drop_count + 1
                             ELSE IF p > last THEN 0
                             ELSE pre.drop_count
                   IN  \/ r.via \in {"rule1", "rule2"}
                       \/ /\ dc >= N
                          /\ r.via = "rule3"
                          /\ SoldBy(r, "CONSECUTIVE_DROPS_RULE_3", p)
                          /\ post.drop_count = 0
                       \/ /\ dc < N
                          /\ r.via # "rule3"
                          /\ Tagged(NewRecords(r), "CONSECUTIVE_DROPS_RULE_3") = {}
                          /\ NotNone(post.position) =>
                                /\ post.drop_count = dc
                                /\ post.last_price = Some(p)
              ELSE /\ r.via # "rule3"
                   /\ Tagged(NewRecords(r), "CONSECUTIVE_DROPS_RULE_3") = {}
                   /\ ~cfg.auto =>
                         /\ r.g = trade_history
                         /\ Key \in DOMAIN states => r.m = states

\* Rule 3 sold on the third signal after the buy: one of the first two was
\* not a drop, the other two were.
C8_Witness ==
    /\ last_call = [op |-> "on_signal", via |-> "rule3"]
    /\ now = 4
    /\ Len(trade_history) = 2
    /\ trade_history[1].ts = 1
    /\ LastRecord.win_reason = "CONSECUTIVE_DROPS_RULE_3"
    /\ states[Key].drop_count = 0
    /\ IsNone(states[Key].position)

\* One more signal for Key with Rule 9 enabled and a cooldown of C seconds.
Rule9Cfgs == {WithRules({9}), WithRules({8, 9}), WithRules({5, 9}), WithRules(1..9)}

Cooldowns == {60, 120}

InCooldown(C) ==
    /\ Key \in DOMAIN states
    /\ IsNone(states[Key].position)
    /\ NotNone(states[Key].rule9_last_sell_time)
    /\ ElapsedSeconds(now + 1, Val(states[Key].rule9_last_sell_time)) < C

Buys(new) == {i \in 1..Len(new) : new[i].direction = "buy"}

\* After any sell of a key the time of its last sell is its last_sell_time.
SellTimeRecorded ==
    \A k \in DOMAIN states :
        LET h == states[k].trade_history
            sells == {i \in 1..Len(h) : h[i].direction = "sell"}
        IN  IF sells = {} THEN IsNone(states[k].rule9_last_sell_time)
            ELSE states[k].rule9_last_sell_time
                    = Some(h[CHOOSE i \in sells : \A j \in sells : j <= i].ts)

\* Once C seconds have passed, or while long, a signal is handled as if
\* Rule 9 were disabled.
Rule9LetsThroughAfterCooldown ==
    \A cfg0 \in Rule9Cfgs, C \in Cooldowns, trend \in {"up", "down"},
       price_str \in {P1, P2} :
        LET cfg == [cfg0 EXCEPT !.rule_9_window_minutes = Some(C)]
            off == [cfg EXCEPT !.rules = @ \ {9}]
            r == Signal(trend, price_str, Ticker, cfg)
            q == Signal(trend, price_str, Ticker, off)
        IN  ~InCooldown(C) => (r.m = q.m /\ r.g = q.g)

Switches ==
    {[auto |-> TRUE, in_hours |-> TRUE, dflt |-> TRUE],
     [auto |-> FALSE, in_hours |-> TRUE, dflt |-> TRUE],
     [auto |-> TRUE, in_hours |-> FALSE, dflt |-> TRUE],
     [auto |-> TRUE, in_hours |-> TRUE, dflt |-> FALSE]}

CfgsOf(rulesets) ==
    {[WithRules(rs) EXCEPT !.auto = sw.auto, !.in_hours = sw.in_hours,
                           !.default_trade_enabled = sw.dflt] :
        rs \in rulesets, sw \in Switches}

\* C10: in any on_signal call for a long key, if an enabled Rule 1, 2 or 3
\* has its sell condition satisfied, the position is closed in that call by
\* one of these rules, whether auto is false, Rule 4 reports outside trading
\* hours, the default strategy is off, and whatever the stage flags of
\* rules 5 to 9 are.
C10_SellRulesNeverBlocked ==
    KeyLong =>
    \A cfg \in CfgsOf({{1, 2, 3}, {2, 4}, {3, 4}, 1..9}), trend \in {"up", "down"},
       price_str \in ValidPrices :
        LET pre == states[Key]
            entry == Val(pre.position).entry
            last == Val(pre.last_price)
            p == PriceOf(price_str)
            dc == IF p < last THEN pre.drop_count + 1
                  ELSE IF p > last THEN 0
                  ELSE pre.drop_count
            take_profit == 1 \in cfg.rules /\ p >= entry + Val(cfg.take_profit_amount)
            stop_loss == 2 \in cfg.rules /\ p <= entry - Val(cfg.stop_loss_amount)
            drops == 3 \in cfg.rules /\ dc >= Val(cfg.rule_3_drop_count)
            r == Signal(trend, price_str, Ticker, cfg)
        IN  (take_profit \/ stop_loss \/ drops) =>
               /\ r.via \in {"rule1", "rule2", "rule3"}
               /\ Len(NewRecords(r)) = 1
               /\ NewRecords(r)[1].direction = "sell"
               /\ IsNone(r.m[Key].position)

\* With every rule enabled, Rule 1, 2 or 3 closed a position that Rule 7 had
\* opened and still marks as its own.
C10_Witness ==
    /\ session = "all"
    /\ last_call.op = "on_signal"
    /\ last_call.via \in {"rule1", "rule2", "rule3"}
    /\ LastRecord.direction = "sell"
    /\ states[Key].rule7_active
    /\ IsNone(states[Key].position)

\* The state of Key before a call: the one tracked, or the one the call
\* creates.
Before(k) == IF k \in DOMAIN states THEN states[k] ELSE TickerState(k, <<>>, <<>>)

BootstrapFields(st) == <<st.first_cycle_done, st.waiting_for_second_down>>

Rule5to8Fields(st) ==
    <<st.rule5_down_start, st.rule5_ready_for_reversal, st.rule5_reversal_active,
      st.rule5_reversal_price, st.rule5_scalp_active,
      st.rule6_down_start, st.rule6_ready_for_buy, st.rule6_active,
      st.rule7_up_start, st.rule7_active, st.rule7_ready_for_buy,
      st.rule8_watch_price>>

Rule9Fields(st) == <<st.rule9_flips, st.rule9_last_sell_time>>

Rule5to9Fields(st) == <<Rule5to8Fields(st), Rule9Fields(st)>>

SellRuleTags == {"TAKE_PROFIT_RULE_1", "STOP_LOSS_RULE_2", "CONSECUTIVE_DROPS_RULE_3"}

\* The records of new are at most one sell, made by Rule 1, 2 or 3.
OnlySellRuleTrade(new) ==
    /\ Len(new) <= 1
    /\ \A i \in 1..Len(new) :
          new[i].direction = "sell" /\ new[i].win_reason \in SellRuleTags

\* The Rule 9 fields after a call are those before it, but for the time of
\* the sell when the call sold.
OnlySellStampsRule9(r) ==
    Rule9Fields(r.m[Key]) =
        IF NewRecords(r) = <<>> THEN Rule9Fields(Before(Key))
        ELSE <<Before(Key).rule9_flips, Some(now + 1)>>

NoAutoCfgs ==
    {[WithRules(rs) EXCEPT !.auto = FALSE] : rs \in {{}, {1, 2, 3}, {3, 5, 6, 7}, 1..9}}

OutOfHoursCfgs ==
    {[WithRules(rs) EXCEPT !.in_hours = FALSE] :
        rs \in {{4}, {1, 2, 3, 4}, {4, 5, 6, 7}, 1..9}}

Rule4OffCfgs == {WithRules(rs) : rs \in {{}, {1, 2, 3}, {5, 6, 7, 8, 9}}}

\* With Rule 4 disabled the answer of is_trading_hours changes nothing.
HoursIgnoredWithoutRule4 ==
    \A cfg \in Rule4OffCfgs, trend \in {"up", "down"}, price_str \in ValidPrices :
        LET r == Signal(trend, price_str, Ticker, [cfg EXCEPT !.in_hours = FALSE])
            q == Signal(trend, price_str, Ticker, [cfg EXCEPT !.in_hours = TRUE])
        IN  r.m = q.m /\ r.g = q.g /\ r.via = q.via /\ r.via # "hours"

SellRuleCfgs ==
    {WithRules(rs) : rs \in {{1, 2, 3}, {2, 3}, {1, 3}, 1..9}}
    \cup {[WithRules({1, 2, 3}) EXCEPT !.auto = FALSE]}

TagOf(via) ==
    CASE via = "rule1" -> "TAKE_PROFIT_RULE_1"
      [] via = "rule2" -> "STOP_LOSS_RULE_2"
      [] via = "rule3" -> "CONSECUTIVE_DROPS_RULE_3"

RuleFields(n, st) ==
    CASE n = 3 -> <<st.last_price, st.peak_price, st.drop_count>>
      [] n = 5 -> <<st.rule5_down_start, st.rule5_ready_for_reversal,
                    st.rule5_reversal_active, st.rule5_reversal_price,
                    st.rule5_scalp_active>>
      [] n = 6 -> <<st.rule6_down_start, st.rule6_ready_for_buy, st.rule6_active>>
      [] n = 7 -> <<st.rule7_up_start, st.rule7_active, st.rule7_ready_for_buy>>
      [] n = 8 -> <<st.rule8_watch_price>>
      [] n = 9 -> Rule9Fields(st)

RuleOf(via) ==
    CASE via = "rule5" -> 5 [] via = "rule6" -> 6 [] via = "rule7" -> 7
      [] via = "rule8" -> 8 [] via = "rule9" -> 9

AutoRuleVias == {"rule5", "rule6", "rule7", "rule8", "rule9"}

AutoRuleCfgs ==
    {WithRules(rs) : rs \in {5..9, {7, 8}, {6, 9}, {5, 9}, {8, 9}, {5, 6}, {6, 7}}}

Lowest(ns) == CHOOSE n \in ns : \A l \in ns : n <= l

\* The lowest enabled rule of 5 to 9 is the first evaluated: the call ends
\* at it exactly when it returns True.
LowestAutoRuleFirst(cfg, trend, price_str, r) ==
    LET n == Lowest(cfg.rules)
        first == RunRule(n, Context(Before(Key), trade_history, cfg.on_trade), Key,
                         trend, PriceOf(price_str), cfg, now + 1)
    IN  first.ret <=> (r.via = RuleVia(n))

\* The default strategy did not trade in the call: the bootstrap fields are
\* as before and every sell carries the tag of Rule 5, 6 or 8.
NoDefaultTrade(r) ==
    /\ BootstrapFields(r.m[Key]) = BootstrapFields(Before(Key))
    /\ \A i \in 1..Len(NewRecords(r)) :
          NewRecords(r)[i].direction = "sell" =>
             NewRecords(r)[i].win_reason \in {"RULE_5", "RULE_6", "RULE_8"}

DefaultCfgs ==
    {WithRules(rs) : rs \in {{}, {1, 2, 3}, {5, 6, 7, 9}, 1..7}}

\* C15: once the bootstrap is complete and no rule intercepts, the default
\* strategy buys on "up" exactly when the key is flat and sells on "down"
\* exactly when it is long; it does nothing on "up" while long, on "down"
\* while flat, or on an empty trend.
C15_DefaultStrategyAfterBootstrap ==
    Before(Key).first_cycle_done =>
    \A cfg \in DefaultCfgs, trend \in Trends, price_str \in ValidPrices :
        LET pre == Before(Key)
            p == PriceOf(price_str)
            r == Signal(trend, price_str, Ticker, cfg)
            new == NewRecords(r)
        IN  r.via = "default" =>
               IF trend = "up" /\ IsNone(pre.position)
               THEN /\ Len(new) = 1
                    /\ new[1].direction = "buy"
                    /\ new[1].price = p
                    /\ NotNone(r.m[Key].position)
                    /\ Val(r.m[Key].position).entry = p
               ELSE IF trend = "down" /\ NotNone(pre.position)
               THEN /\ Len(new) = 1
                    /\ new[1].direction = "sell"
                    /\ new[1].price = p
                    /\ IsNone(r.m[Key].position)
               ELSE /\ new = <<>>
                    /\ r.m[Key].position = pre.position

\* The default strategy bought on "up" after an earlier buy and sell of the
\* key: the bootstrap was complete.
C15_Witness ==
    /\ session = "default"
    /\ last_call = [op |-> "on_signal", via |-> "default"]
    /\ Len(trade_history) = 3
    /\ LastRecord.direction = "buy"
    /\ LastRecord.ts = now
    /\ states[Key].first_cycle_done

SellReasons == {NoReason, "RULE_5", "TAKE_PROFIT_RULE_1"}

\* C16: a sell requested while the key has no open position is a no-op:
\* the position, last_direction, the rule fields, the key's history and the
\* global ledger are unchanged, the callback is not invoked, and no error
\* is raised. Checked for the core sell, for the callback the rules are
\* given, and for the manual trade route on a tracked key.
C16_SellWhileFlatIsNoOp ==
    KeyFlat =>
    /\ \A price \in {100, 200, 300}, win_reason \in SellReasons,
          on_trade \in {"none", "ok", "raises"} :
          LET c == Context(Before(Key), trade_history, on_trade)
          IN  /\ sell(c, Key, price, win_reason, now + 1) = c
              /\ sell_callback(c, Key, price, win_reason, now + 1) = c
    /\ Key \in DOMAIN states =>
          \A price \in RoutePrices, cfg \in {RouteCfg, [RouteCfg EXCEPT !.on_trade = "raises"]} :
              NotNone(PyFloat(price)) =>
                 LET r == api_manual_trade(states, trade_history, "sell", price,
                                           Ticker, cfg, now + 1)
                 IN  /\ r.m = states
                     /\ r.g = trade_history
                     /\ r.sent = <<>>
                     /\ r.via = "sell"

\* The manual trade route asked for a sell of a tracked key that had no
\* position: nothing was handed to the callback.
C16_Witness ==
    /\ session = "api"
    /\ last_call = [op |-> "manual_trade", via |-> "sell"]
    /\ Key \in DOMAIN states
    /\ IsNone(states[Key].position)
    /\ on_trade_calls = <<>>

\* C17, as claimed: a buy requested while the key is already long is a
\* no-op (the open position keeps its entry and trade_id, and no second buy
\* record is appended), whichever call site requests it: a rule callback,
\* the manual trade route or a direct core call.
C17_BuyWhileLongIsNoOp ==
    KeyLong =>
    \A price \in {100, 200} :
        LET c == Context(states[Key], trade_history, "ok")
            r == api_manual_trade(states, trade_history, "buy", PyNum(price),
                                  Ticker, RouteCfg, now + 1)
        IN  /\ buy(c, Key, price, now + 1) = c
            /\ buy_callback(c, Key, price, now + 1) = c
            /\ r.m[Key].position = states[Key].position
            /\ r.g = trade_history

\* The manual trade route bought a key that was already long: the key's
\* history ends with two buys and the position carries the second one's
\* trade_id.
C17_SecondBuyRecorded ==
    /\ session = "api"
    /\ last_call = [op |-> "manual_trade", via |-> "buy"]
    /\ Key \in DOMAIN states
    /\ LET h == states[Key].trade_history
       IN  /\ Len(h) >= 2
           /\ h[Len(h)].direction = "buy"
           /\ h[Len(h) - 1].direction = "buy"
           /\ NotNone(states[Key].position)
           /\ Val(states[Key].position).trade_id = h[Len(h)].trade_id
           /\ h[Len(h)].trade_id # h[Len(h) - 1].trade_id

CallbackCfgs == {WithRules(rs) : rs \in {{}, {1, 2, 3}, {5, 8}, 1..9}}

\* The call that met a raising callback ended as the one whose callback
\* succeeded, and each record it handed over is in the ledger and in the
\* key's history.
SameOutcome(ok, bad) ==
    /\ bad.m = ok.m
    /\ bad.g = ok.g
    /\ bad.via = ok.via
    /\ bad.summary = ok.summary
    /\ Len(bad.sent) = Len(ok.sent)
    /\ Len(bad.sent) = Len(NewRecords(bad))
    /\ \A i \in 1..Len(bad.sent) :
          /\ bad.sent[i].raised
          /\ bad.sent[i].trade = NewRecords(bad)[i]
          /\ LET h == bad.m[Key].trade_history
             IN  bad.sent[i].trade = h[Len(h) - Len(bad.sent) + i]

\* C18: an exception raised by the on_trade callback never changes the
\* outcome: when on_trade is invoked the record is already appended to the
\* key's history and the ledger, the position change stands, the exception
\* does not propagate, and the resulting state is identical to the one
\* reached when the callback succeeds.
C18_CallbackFailureChangesNothing ==
    /\ \A cfg \in CallbackCfgs, trend \in {"up", "down"}, price_str \in ValidPrices :
          SameOutcome(Signal(trend, price_str, Ticker, cfg),
                      Signal(trend, price_str, Ticker, [cfg EXCEPT !.on_trade = "raises"]))
    /\ \A price_str \in ValidPrices :
          SameOutcome(manual_toggle(states, trade_history, price_str, Ticker,
                                    <<>>, <<>>, "ok", now + 1),
                      manual_toggle(states, trade_history, price_str, Ticker,
                                    <<>>, <<>>, "raises", now + 1))

\* The callback raised on a buy: the buy is the last record of the ledger
\* and of the key's history and the position is open.
C18_Witness ==
    /\ session = "failing"
    /\ on_trade_calls # <<>>
    /\ on_trade_calls[Len(on_trade_calls)].raised
    /\ on_trade_calls[Len(on_trade_calls)].trade = LastRecord
    /\ LastRecord.direction = "buy"
    /\ LastRecord = states[Key].trade_history[Len(states[Key].trade_history)]
    /\ NotNone(states[Key].position)
    /\ Val(states[Key].position).trade_id = LastRecord.trade_id

RECURSIVE RecordsOf(_, _)
\* The ledger restricted to the records of one key: those that carry the
\* bot_id and ticker of its state, in the ledger's order.
RecordsOf(g, st) ==
    IF g = <<>> THEN <<>>
    ELSE IF g[1].bot_id = st.bot_id /\ g[1].ticker = st.ticker
    THEN <<g[1]>> \o RecordsOf(Tail(g), st)
    ELSE RecordsOf(Tail(g), st)

InLedger(rec) == \E i \in 1..Len(trade_history) : trade_history[i] = rec

LedgerMatchesHistories ==
    \A key \in DOMAIN states :
        /\ RecordsOf(trade_history, states[key]) = states[key].trade_history
        /\ \A i \in 1..Len(states[key].trade_history) :
              InLedger(states[key].trade_history[i])

\* C19, as claimed: after any sequence of on_signal, manual_toggle,
\* clear_bot and clear_all calls, the global ledger restricted to one
\* tracked key's records equals that key's trade_history in order; no record
\* is ever in a key's history without being in the ledger.
C19_LedgerMatchesAfterAnyCalls ==
    session \in SignalSessions \cup {"admin"} => LedgerMatchesHistories

\* C19, amended: after any sequence of on_signal, manual_toggle and
\* clear_all calls (clear_bot left out), the global ledger restricted to one
\* tracked key's records equals that key's trade_history in order; no record
\* is ever in a key's history without being in the ledger.
C19_LedgerMatchesWithoutClearBot ==
    session \in SignalSessions => LedgerMatchesHistories

\* Two keys have traded after a clear_all (the first call of a run always
\* trades, at time 1): the ledger holds the records of both.
C19_Witness ==
    /\ session = "bots"
    /\ Len(trade_history) >= 2
    /\ trade_history[1].ts > 1
    /\ \E k1, k2 \in DOMAIN states :
          /\ k1 # k2
          /\ states[k1].trade_history # <<>>
          /\ states[k2].trade_history # <<>>

KeptRecords(g, bot) ==
    LET Kept(rec) == bot = <<>> \/ rec.bot_id # bot
    IN  SelectSeq(g, Kept)

RECURSIVE SellProfits(_)
\* The sum of the profits of the sell records of a history.
SellProfits(h) ==
    IF h = <<>> THEN 0
    ELSE (IF h[1].direction = "sell" THEN Val(h[1].profit) ELSE 0)
         + SellProfits(Tail(h))

RECURSIVE SellProfitsOfKeys(_)
SellProfitsOfKeys(ks) ==
    IF ks = {} THEN 0
    ELSE LET k == CHOOSE k \in ks : TRUE
         IN  SellProfits(states[k].trade_history) + SellProfitsOfKeys(ks \ {k})

\* C21, as claimed: generate_summary's per-bot view has one entry for every
\* tracked key, and total_pnl_all_tickers equals the sum of the profits of
\* all sell records in the trade histories of all tracked keys, including
\* when one bot_id trades several tickers.
C21_SummaryCoversEveryKey ==
    LET summary == generate_summary(states, trade_history)
    IN  /\ Cardinality(DOMAIN summary.bots) = Cardinality(DOMAIN states)
        /\ \A k \in DOMAIN states :
              \E b \in DOMAIN summary.bots :
                 /\ summary.bots[b].ticker = states[k].ticker
                 /\ summary.bots[b].trade_history = states[k].trade_history
        /\ summary.total_pnl_all_tickers = SellProfitsOfKeys(DOMAIN states)

\* Bot x closed a trade on one ticker with a profit and then opened a second
\* ticker: the per-bot view holds one entry for x, that of the second
\* ticker, and the total leaves the profit out.
C21_KeyMissingFromBotsView ==
    /\ session = "bots"
    /\ \E k1, k2 \in DOMAIN states :
          /\ k1 # k2
          /\ states[k1].bot_id = <<"x">>
          /\ states[k2].bot_id = <<"x">>
          /\ states[k1].slot < states[k2].slot
          /\ SellProfits(states[k1].trade_history) > 0
          /\ states[k2].trade_history # <<>>
          /\ SellProfits(states[k2].trade_history) = 0
          /\ DOMAIN states = {k1, k2}
          /\ LET summary == generate_summary(states, trade_history)
             IN  /\ DOMAIN summary.bots = {<<"x">>}
                 /\ summary.bots[<<"x">>].ticker = states[k2].ticker
                 /\ summary.total_pnl_all_tickers = 0

GetOrCreateKeys == {Key, <<"x", ":", "A">>, <<"Z">>}

Filled(old, given) == IF old # <<>> THEN old ELSE given

\* Every field but the identity is at its default.
AtDefaults(st) ==
    /\ IsNone(st.position)
    /\ st.trade_history = <<>>
    /\ st.last_direction = "None"
    /\ BootstrapFields(st) = <<FALSE, FALSE>>
    /\ <<st.last_price, st.peak_price, st.drop_count>> = <<None, None, 0>>
    /\ RuleFields(5, st) = <<None, FALSE, FALSE, None, FALSE>>
    /\ RuleFields(6, st) = <<None, FALSE, FALSE>>
    /\ RuleFields(7, st) = <<None, FALSE, FALSE>>
    /\ RuleFields(8, st) = <<None>>
    /\ st.rule9_flips = <<>>
    /\ IsNone(st.rule9_last_sell_time)

\* C22: get_or_create on an existing key returns the same TickerState
\* without resetting anything: position, trade_history, bootstrap flags and
\* rule fields are unchanged, identity fields (ticker, bot_id, bot_name)
\* that are already non-empty are never overwritten, and only empty identity
\* fields are filled from the arguments; on an absent key it creates a state
\* with all fields at their defaults.
C22_GetOrCreateKeepsState ==
    \A key \in GetOrCreateKeys, ticker \in {<<>>, <<"A">>, <<"Z">>},
       bot_id \in {<<>>, <<"x">>, <<"y">>}, bot_name \in {<<>>, <<"n">>, <<"m">>} :
        LET m == get_or_create(states, key, ticker, bot_id, bot_name)
        IN  /\ DOMAIN m = DOMAIN states \cup {key}
            /\ \A k \in DOMAIN states \ {key} : m[k] = states[k]
            /\ IF key \in DOMAIN states
               THEN m[key] = [states[key] EXCEPT
                                 !.ticker = Filled(@, ticker),
                                 !.bot_id = Filled(@, bot_id),
                                 !.bot_name = Filled(@, bot_name)]
               ELSE /\ AtDefaults(m[key])
                    /\ m[key].ticker = ticker
                    /\ m[key].bot_id = bot_id
                    /\ m[key].bot_name = bot_name

\* A key first traded without a bot name and was named by a later signal:
\* the name is filled in, the earlier record and the open position are kept.
C22_Witness ==
    /\ session = "api"
    /\ last_call.op = "on_signal"
    /\ Key \in DOMAIN states
    /\ states[Key].bot_name = <<"n">>
    /\ states[Key].trade_history # <<>>
    /\ states[Key].trade_history[1].bot_name = <<>>
    /\ NotNone(states[Key].position)
    /\ Val(states[Key].position).trade_id = states[Key].trade_history[1].trade_id

\* C23: manual_toggle with a parsable price and non-empty ticker flips the
\* position whatever the rule and bootstrap state: a flat key becomes long
\* at the given price, a long key becomes flat with a sell at the given
\* price and no win_reason; it never consults rules 1-9, the auto flag or
\* the hours gate (it takes none of them).
C23_ManualToggleFlips ==
    \A price_str \in ValidPrices, on_trade \in {"ok", "raises"} :
        LET pre == Before(Key)
            p == PriceOf(price_str)
            r == manual_toggle(states, trade_history, price_str, Ticker,
                               <<>>, <<>>, on_trade, now + 1)
            new == NewRecords(r)
            post == r.m[Key]
        IN  /\ r.via = "manual"
            /\ Len(new) = 1
            /\ new[1].price = p
            /\ post.trade_history = Append(pre.trade_history, new[1])
            /\ BootstrapFields(post) = BootstrapFields(pre)
            /\ IF IsNone(pre.position)
               THEN /\ new[1].direction = "buy"
                    /\ NotNone(post.position)
                    /\ Val(post.position).entry = p
               ELSE /\ new[1].direction = "sell"
                    /\ new[1].win_reason = NoReason
                    /\ new[1].profit = Some(p - Val(pre.position).entry)
                    /\ IsNone(post.position)

\* A manual toggle bought right after a sell, with rules 1 and 9 in use and
\* Rule 9's last_sell_time set.
C23_Witness ==
    /\ session = "r9"
    /\ last_call = [op |-> "manual_toggle", via |-> "manual"]
    /\ NotNone(states[Key].position)
    /\ Val(states[Key].position).ts = now
    /\ NotNone(states[Key].rule9_last_sell_time)
    /\ Val(states[Key].rule9_last_sell_time) = now - 1

StatefulRules == {3, 5, 6, 7, 8, 9}

\* The rules no call of a session enables.
NeverEnabled(sess) ==
    StatefulRules \ UNION {cfg.rules : cfg \in Family(sess).cfgs \cup {RouteCfg}}

DefaultFields(n) == RuleFields(n, TickerState(<<>>, <<>>, <<>>))

\* The sessions made of signals alone.
SignalOnlySessions == {sess \in SignalSessions : ~Family(sess).manual}

WrittenByTrades(st) ==
    /\ RuleFields(3, st) \in
          {IF IsNone(st.position) THEN <<None, None, 0>>
           ELSE <<Some(Val(st.position).entry), Some(Val(st.position).entry), 0>>}
    /\ st.rule9_flips = <<>>
    /\ \/ IsNone(st.rule9_last_sell_time)
       \/ \E i \in 1..Len(st.trade_history) :
             /\ st.trade_history[i].direction = "sell"
             /\ st.trade_history[i].ts = Val(st.rule9_last_sell_time)

WithoutTradeFields(st) ==
    [st EXCEPT !.last_price = None, !.peak_price = None, !.drop_count = 0,
               !.rule9_last_sell_time = None]

\* One more signal of the session decides the same with the fields the
\* trades wrote put back to their defaults.
TradeFieldsDecideNothing ==
    Key \in DOMAIN states =>
    \A cfg \in Family(session).cfgs, trend \in {"up", "down"}, price_str \in ValidPrices :
        LET r == Signal(trend, price_str, Ticker, cfg)
            q == on_signal([states EXCEPT ![Key] = WithoutTradeFields(@)],
                           trade_history, trend, price_str, Ticker, <<>>, <<>>,
                           cfg, now + 1)
        IN  /\ q.via = r.via
            /\ q.g = r.g
            /\ q.m[Key].position = r.m[Key].position
            /\ Rule5to8Fields(q.m[Key]) = Rule5to8Fields(r.m[Key])

BadParams == {Some(0), Some(0 - 100)}
SafeParams == {Some(n) : n \in {1, 3, 5, 10, 15, 25, 30, 200}}

\* What a rule does with a bad setting is what it does when inactive
\* (nothing, returning False) or what it does with some safe positive one.
Tolerated(bad, inactive, safe) == bad = inactive \/ bad \in safe

MisconfiguredRuleTolerated(n, c, trend, price, cfg, t) ==
    LET inactive == Ret(c, FALSE)
    IN  CASE n = 1 ->
              \A v \in BadParams :
                 Tolerated(maybe_take_profit_sell(c, Key, price, v, t), inactive,
                           {maybe_take_profit_sell(c, Key, price, w, t) : w \in SafeParams})
          [] n = 2 ->
              \A v \in BadParams :
                 maybe_stop_loss_sell(c, Key, price, v, t)
                    = maybe_stop_loss_sell(c, Key, price, Some(0), t)
          [] n = 3 ->
              \A v \in BadParams :
                 Tolerated(maybe_consecutive_drops_sell(c, Key, price, v, t), inactive,
                           {maybe_consecutive_drops_sell(c, Key, price, w, t) : w \in SafeParams})
          [] n = 5 ->
              \A v \in BadParams :
                 /\ Tolerated(maybe_rule5_trade(c, Key, trend, price, v,
                                  cfg.rule_5_reversal_amount, cfg.rule_5_scalp_amount, t),
                              inactive,
                              {maybe_rule5_trade(c, Key, trend, price, w,
                                  cfg.rule_5_reversal_amount, cfg.rule_5_scalp_amount, t)
                               : w \in SafeParams})
                 /\ Tolerated(maybe_rule5_trade(c, Key, trend, price,
                                  cfg.rule_5_down_minutes, v, cfg.rule_5_scalp_amount, t),
                              inactive,
                              {maybe_rule5_trade(c, Key, trend, price,
                                  cfg.rule_5_down_minutes, w, cfg.rule_5_scalp_amount, t)
                               : w \in SafeParams})
                 /\ Tolerated(maybe_rule5_trade(c, Key, trend, price,
                                  cfg.rule_5_down_minutes, cfg.rule_5_reversal_amount, v, t),
                              inactive,
                              {maybe_rule5_trade(c, Key, trend, price,
                                  cfg.rule_5_down_minutes, cfg.rule_5_reversal_amount, w, t)
                               : w \in SafeParams})
          [] n = 6 ->
              \A v \in BadParams :
                 /\ Tolerated(maybe_rule6_trade(c, Key, trend, price, v,
                                  cfg.rule_6_profit_amount, t),
                              inactive,
                              {maybe_rule6_trade(c, Key, trend, price, w,
                                  cfg.rule_6_profit_amount, t) : w \in SafeParams})
                 /\ Tolerated(maybe_rule6_trade(c, Key, trend, price,
                                  cfg.rule_6_down_minutes, v, t),
                              inactive,
                              {maybe_rule6_trade(c, Key, trend, price,
                                  cfg.rule_6_down_minutes, w, t) : w \in SafeParams})
          [] n = 7 ->
              \A v \in BadParams :
                 Tolerated(maybe_rule7_trade(c, Key, trend, price, v, t), inactive,
                           {maybe_rule7_trade(c, Key, trend, price, w, t) : w \in SafeParams})
          [] n = 8 ->
              \A v \in BadParams :
                 /\ Tolerated(maybe_rule8_trade(c, Key, price, v, cfg.rule_8_sell_offset, t),
                              inactive,
                              {maybe_rule8_trade(c, Key, price, w, cfg.rule_8_sell_offset, t)
                               : w \in SafeParams})
                 /\ Tolerated(maybe_rule8_trade(c, Key, price, cfg.rule_8_buy_offset, v, t),
                              inactive,
                              {maybe_rule8_trade(c, Key, price, cfg.rule_8_buy_offset, w, t)
                               : w \in SafeParams})
          [] n = 9 ->
              \A v \in BadParams :
                 Tolerated(maybe_rule9_trade(c, Key, trend, price, cfg.rule_9_amount,
                                             cfg.rule_9_flips, v, t),
                           inactive,
                           {maybe_rule9_trade(c, Key, trend, price, cfg.rule_9_amount,
                                              cfg.rule_9_flips, w, t) : w \in SafeParams})

MisconfiguredRulesTolerated(ns) ==
    \A n \in ns, trend \in {"up", "down"}, price \in {100, 200, 300} :
        MisconfiguredRuleTolerated(n, Context(Before(Key), trade_history, "ok"),
                                   trend, price, BaseCfg, now + 1)

\* C25, as claimed: misconfigured rule parameters never make a rule trade on
\* a bad threshold and never raise: a zero or negative amount, offset, count
\* or duration is either replaced by a safe positive default or makes the
\* rule inactive for that call, for every rule 1-9 (Rule 2's amount clamps
\* to 0).
C25_MisconfiguredParametersTolerated ==
    MisconfiguredRulesTolerated({1, 2, 3, 5, 6, 7, 8, 9})

\* The same for every rule but Rule 8.
MisconfiguredParametersToleratedButRule8 ==
    MisconfiguredRulesTolerated({1, 2, 3, 5, 6, 7, 9})

\* Rule 8 with a buy offset of 0 bought on the first signal of a key, with
\* no pullback from any watched price.
C25_Rule8BoughtWithoutPullback ==
    /\ session = "r8"
    /\ last_call = [op |-> "on_signal", via |-> "rule8"]
    /\ now = 1
    /\ Len(trade_history) = 1
    /\ LastRecord.direction = "buy"
    /\ NotNone(states[Key].position)

\* Run in one piece, the two steps of the default strategy are the default
\* strategy.
DefaultStrategyInTwoSteps ==
    \A trend \in Trends, price \in {100, 200} :
        LET c == Context(Before(Key), trade_history, "ok")
        IN  DefaultBody(DefaultBranch(c.s, trend), c, Key, price, now + 1)
              = DefaultStrategy(c, Key, trend, price, now + 1)

\* C26, as claimed: a given TickerState is never mutated from more than one
\* call site at a time: the loop that calls on_signal is the sole writer of
\* trader state, and no other thread or request handler buys, sells or
\* changes state while an on_signal call is in progress.
C26_NoHandlerDuringOnSignal ==
    last_call.op \in {"manual_trade", "close_all_positions"} =>
        last_call.via = "alone"

\* The loop found the key flat and chose to buy; the manual trade route
\* bought before the loop's buy ran: the key's history ends with two buys
\* and the first has no sell.
C26_LoopBoughtOverHandlerBuy ==
    /\ session = "race"
    /\ last_call = [op |-> "on_signal", via |-> "default"]
    /\ Key \in DOMAIN states
    /\ LET h == states[Key].trade_history
       IN  /\ Len(h) >= 2
           /\ h[Len(h)].direction = "buy"
           /\ h[Len(h)].ts = now
           /\ h[Len(h) - 1].direction = "buy"
           /\ h[Len(h) - 1].ts = now - 1


\* Calls that exercise Rule 5 alone, after the sell rules, behind the auto
\* and hours gates, and with every rule enabled.
Rule5Cfgs ==
    {WithRules({5}), WithRules({1, 2, 3, 5}),
     [WithRules({5}) EXCEPT !.auto = FALSE],
     [WithRules({4, 5}) EXCEPT !.in_hours = FALSE],
     WithRules(1..9)}

\* The call got as far as the automatic rules, of which Rule 5 is the first.
ReachesAutoRules(r) ==
    r.via \notin {"rejected", "rule1", "rule2", "rule3", "not_auto", "hours"}

\* The effective down_minutes of a call, in seconds.
Rule5DownSeconds(cfg) == Max(OrDefault(cfg.rule_5_down_minutes, 3), 1) * SecondsPerMinute

\* C27: on every signal that Rule 5 receives, rule5_ready_for_reversal
\* becomes true only on a "down" signal at least down_minutes after the
\* "down" signal that set rule5_down_start, that start being still in place
\* (it is set only by a "down" signal, to the time of that signal, and never
\* moved); a non-down signal received before the rule is armed leaves
\* rule5_down_start cleared; an armed rule stays armed on every signal
\* but "up", and the first "up" disarms it.
C27_Rule5Arming ==
    \A cfg \in Rule5Cfgs, trend \in Trends, price_str \in {P1, P2} :
        LET r == Signal(trend, price_str, Ticker, cfg)
            pre == Before(Key)
            post == r.m[Key]
            t == now + 1
        IN  /\ ~pre.rule5_ready_for_reversal /\ post.rule5_ready_for_reversal =>
                /\ ReachesAutoRules(r)
                /\ trend = "down"
                /\ NotNone(pre.rule5_down_start)
                /\ post.rule5_down_start = pre.rule5_down_start
                /\ ElapsedSeconds(t, Val(pre.rule5_down_start)) >= Rule5DownSeconds(cfg)
            /\ IsNone(pre.rule5_down_start) /\ NotNone(post.rule5_down_start) =>
                /\ trend = "down"
                /\ post.rule5_down_start = Some(t)
            /\ NotNone(pre.rule5_down_start) /\ NotNone(post.rule5_down_start) =>
                post.rule5_down_start = pre.rule5_down_start
            /\ ReachesAutoRules(r) /\ ~pre.rule5_ready_for_reversal /\ trend # "down" =>
                /\ IsNone(post.rule5_down_start)
                /\ ~post.rule5_ready_for_reversal
            /\ pre.rule5_ready_for_reversal /\ trend # "up" =>
                post.rule5_ready_for_reversal
            /\ ReachesAutoRules(r) /\ pre.rule5_ready_for_reversal /\ trend = "up" =>
                ~post.rule5_ready_for_reversal

\* Rule 5 is armed: the last signal was a "down" at least down_minutes
\* after the "down" that started the streak.
C27_Witness ==
    /\ session = "r5"
    /\ last_call = [op |-> "on_signal", via |-> "default"]
    /\ Key \in DOMAIN states
    /\ states[Key].rule5_ready_for_reversal
    /\ NotNone(states[Key].rule5_down_start)
    /\ ElapsedSeconds(now, Val(states[Key].rule5_down_start))
          >= Rule5DownSeconds(WithRules({5}))


\* The effective reversal_amount of a call.
Rule5ReversalAmount(cfg) == Max(OrDefault(cfg.rule_5_reversal_amount, 200), 10)

\* One call that reached Rule 5, seen from the reversal stage.  The trigger
\* (armed, "up") ends the call in Rule 5 with rule5_reversal_price at the
\* current price and rule5_reversal_active set, and buys at that price; a
\* call with rule5_reversal_active set ends in Rule 5, leaves the fields of
\* rules 6, 7, 8 and of the default strategy alone, and trades nothing below
\* the target; at the target it sells with tag RULE_5, clears
\* reversal_active and reversal_price and sets rule5_scalp_active.
\* With any_position the buy and the sell are expected whatever the
\* position; without it, the buy only when flat and the sell only when long.
Rule5ReversalCall(r, pre, post, trend, p, cfg, any_position) ==
    LET new == NewRecords(r)
    IN  /\ pre.rule5_ready_for_reversal /\ trend = "up" =>
            /\ r.via = "rule5"
            /\ ~post.rule5_ready_for_reversal
            /\ post.rule5_reversal_active
            /\ post.rule5_reversal_price = Some(p)
            /\ IF any_position \/ IsNone(pre.position)
               THEN /\ Len(new) = 1
                    /\ new[1].direction = "buy"
                    /\ new[1].price = p
                    /\ NotNone(post.position)
                    /\ Val(post.position).entry = p
               ELSE /\ new = <<>>
                    /\ post.position = pre.position
        /\ pre.rule5_reversal_active =>
            /\ r.via = "rule5"
            /\ \A n \in {6, 7, 8} : RuleFields(n, post) = RuleFields(n, pre)
            /\ BootstrapFields(post) = BootstrapFields(pre)
            /\ NotNone(pre.rule5_reversal_price)
            /\ IF p >= Val(pre.rule5_reversal_price) + Rule5ReversalAmount(cfg)
               THEN /\ ~post.rule5_reversal_active
                    /\ IsNone(post.rule5_reversal_price)
                    /\ post.rule5_scalp_active
                    /\ IsNone(post.position)
                    /\ IF any_position \/ NotNone(pre.position)
                       THEN /\ Len(new) = 1
                            /\ new[1].direction = "sell"
                            /\ new[1].price = p
                            /\ new[1].win_reason = "RULE_5"
                       ELSE new = <<>>
               ELSE /\ new = <<>>
                    /\ post.position = pre.position
                    /\ RuleFields(5, post) = RuleFields(5, pre)

Rule5ReversalCalls(any_position) ==
    \A cfg \in Rule5Cfgs, trend \in Trends, price_str \in ValidPrices :
        LET r == Signal(trend, price_str, Ticker, cfg)
        IN  ReachesAutoRules(r) =>
               Rule5ReversalCall(r, Before(Key), r.m[Key], trend,
                                 PriceOf(price_str), cfg, any_position)

\* C28, as claimed: the first "up" signal while armed buys at the current
\* price, records it as rule5_reversal_price and sets rule5_reversal_active;
\* while rule5_reversal_active is true Rule 5 returns True on every signal
\* (no rule 6-9 or default logic runs) and trades nothing until
\* price >= rule5_reversal_price + reversal_amount, at which signal it sells
\* with tag RULE_5, clears reversal_active and reversal_price and sets
\* rule5_scalp_active.
C28_ReversalBuysAndSells == Rule5ReversalCalls(TRUE)

\* C28, amended: as claimed, except that the first "up" while armed buys
\* only if the key is flat (with a position open it buys nothing and still
\* records the current price and sets rule5_reversal_active), and that the
\* signal at the target sells only if a position is open (with none it
\* trades nothing and still moves to the scalp stage).
C28_ReversalBuysIfFlatSellsIfLong == Rule5ReversalCalls(FALSE)

\* Rule 5 has closed its reversal trade at the target: the position bought
\* by the first "up" while armed was sold with tag RULE_5 at reversal
\* price + reversal_amount or more, and the scalp stage is on.
C28_Witness ==
    /\ session = "r5"
    /\ last_call = [op |-> "on_signal", via |-> "rule5"]
    /\ Key \in DOMAIN states
    /\ states[Key].rule5_scalp_active
    /\ ~states[Key].rule5_reversal_active
    /\ Len(states[Key].trade_history) >= 2
    /\ LET h == states[Key].trade_history
           s == h[Len(h)]
           b == h[Len(h) - 1]
       IN  /\ s.direction = "sell" /\ s.win_reason = "RULE_5" /\ s.ts = now
           /\ b.direction = "buy" /\ b.ts < now
           /\ s.price >= b.price + Rule5ReversalAmount(WithRules({5}))

\* Rule 5 is armed while a position bought by Rule 8 is open.
C28_ArmedWhileLong ==
    /\ session = "all"
    /\ Key \in DOMAIN states
    /\ states[Key].rule5_ready_for_reversal
    /\ NotNone(states[Key].position)


\* The effective scalp_amount of a call.
Rule5ScalpAmount(cfg) == Max(OrDefault(cfg.rule_5_scalp_amount, 25), 1)

\* C29: while rule5_scalp_active, each "up" signal received while flat
\* appends exactly one buy record at the signal price followed by one sell
\* record at price + scalp_amount tagged RULE_5, of the same trade and with
\* profit scalp_amount, leaves the key flat and the scalp stage on, and
\* ends the call in Rule 5; on any non-up signal Rule 5 sets
\* rule5_scalp_active to false, trades nothing and returns False, so that
\* with no later rule and no default strategy the call trades nothing.
C29_Rule5Scalp ==
    LET pre == Before(Key)
        t == now + 1
    IN  pre.rule5_scalp_active =>
          /\ ~pre.rule5_reversal_active
          /\ \A cfg \in Rule5Cfgs, price_str \in ValidPrices :
                LET r == Signal("up", price_str, Ticker, cfg)
                    p == PriceOf(price_str)
                    new == NewRecords(r)
                    post == r.m[Key]
                IN  ReachesAutoRules(r) /\ IsNone(pre.position) =>
                      /\ r.via = "rule5"
                      /\ Len(new) = 2
                      /\ new[1].direction = "buy"
                      /\ new[1].price = p
                      /\ new[2].direction = "sell"
                      /\ new[2].price = p + Rule5ScalpAmount(cfg)
                      /\ new[2].win_reason = "RULE_5"
                      /\ new[2].profit = Some(Rule5ScalpAmount(cfg))
                      /\ new[2].trade_id = new[1].trade_id
                      /\ post.trade_history = pre.trade_history \o new
                      /\ IsNone(post.position)
                      /\ post.rule5_scalp_active
          /\ \A trend \in Trends \ {"up"}, p \in {100, 200, 300} :
                LET cfg == WithRules({5})
                    c == Context(pre, trade_history, "ok")
                    q == maybe_rule5_trade(c, Key, trend, p, cfg.rule_5_down_minutes,
                                           cfg.rule_5_reversal_amount,
                                           cfg.rule_5_scalp_amount, t)
                IN  /\ ~q.ret
                    /\ ~q.c.s.rule5_scalp_active
                    /\ q.c.g = trade_history
                    /\ q.c.s.trade_history = pre.trade_history
                    /\ q.c.s.position = pre.position
                    /\ q.c.sent = <<>>
          /\ \A trend \in Trends \ {"up"}, price_str \in ValidPrices :
                LET r == Signal(trend, price_str, Ticker,
                                [WithRules({5}) EXCEPT !.default_trade_enabled = FALSE])
                IN  /\ r.via = "none"
                    /\ NewRecords(r) = <<>>
                    /\ ~r.m[Key].rule5_scalp_active

\* A scalp trade was made: after the reversal trade, an "up" signal while
\* flat bought at its price and sold at price + scalp_amount in one call.
C29_Witness ==
    /\ session = "r5"
    /\ last_call = [op |-> "on_signal", via |-> "rule5"]
    /\ Key \in DOMAIN states
    /\ states[Key].rule5_scalp_active
    /\ IsNone(states[Key].position)
    /\ Len(states[Key].trade_history) >= 4
    /\ LET h == states[Key].trade_history
           s == h[Len(h)]
           b == h[Len(h) - 1]
       IN  /\ b.direction = "buy" /\ b.ts = now
           /\ s.direction = "sell" /\ s.ts = now /\ s.win_reason = "RULE_5"
           /\ s.price = b.price + Rule5ScalpAmount(WithRules({5}))
           /\ h[Len(h) - 2].win_reason = "RULE_5"

\* The scalp stage was left: a non-up signal came while it was on.
C29_ScalpLeft ==
    /\ session = "r5"
    /\ Key \in DOMAIN states
    /\ ~states[Key].rule5_scalp_active
    /\ states[Key].trade_history # <<>>
    /\ LET h == states[Key].trade_history
       IN  h[Len(h)].win_reason = "RULE_5" /\ h[Len(h)].ts < now


\* Calls that exercise Rule 6 alone, after the sell rules, after Rule 5 and
\* with every rule enabled.
Rule6Cfgs == {WithRules({6}), WithRules({1, 2, 3, 6}), WithRules({5, 6}), WithRules(1..9)}

\* The call got as far as Rule 6.
ReachesRule6(r) == ReachesAutoRules(r) /\ r.via # "rule5"

\* The effective down_minutes, in seconds, and profit_amount of a call.
Rule6DownSeconds(cfg) == Max(OrDefault(cfg.rule_6_down_minutes, 5), 1) * SecondsPerMinute
Rule6ProfitAmount(cfg) == Max(OrDefault(cfg.rule_6_profit_amount, 200), 10)

\* C30: Rule 6 becomes ready only on a "down" signal at least down_minutes
\* after the "down" that started the streak; the first "up" signal it then
\* receives buys at the current price if the key is flat (nothing if it is
\* long) and sets rule6_active, ending the call; while rule6_active and
\* long, Rule 6 ends every call it receives, so that no field of rules 7, 8
\* or of the default strategy changes and nothing else trades, and it
\* sells exactly when price >= entry + profit_amount, with tag RULE_6,
\* profit price - entry >= profit_amount, and rule6_active cleared; no
\* record tagged RULE_6 is made in any other case.
C30_Rule6 ==
    \A cfg \in Rule6Cfgs, trend \in Trends, price_str \in ValidPrices :
        LET r == Signal(trend, price_str, Ticker, cfg)
            p == PriceOf(price_str)
            pre == Before(Key)
            post == r.m[Key]
            new == NewRecords(r)
            t == now + 1
            holding == pre.rule6_active /\ NotNone(pre.position)
        IN  /\ ~pre.rule6_ready_for_buy /\ post.rule6_ready_for_buy =>
                /\ ReachesRule6(r)
                /\ trend = "down"
                /\ NotNone(pre.rule6_down_start)
                /\ ElapsedSeconds(t, Val(pre.rule6_down_start)) >= Rule6DownSeconds(cfg)
            /\ ReachesRule6(r) /\ ~holding /\ pre.rule6_ready_for_buy /\ trend = "up" =>
                /\ r.via = "rule6"
                /\ post.rule6_active
                /\ ~post.rule6_ready_for_buy
                /\ IF IsNone(pre.position)
                   THEN /\ Len(new) = 1
                        /\ new[1].direction = "buy"
                        /\ new[1].price = p
                        /\ NotNone(post.position)
                        /\ Val(post.position).entry = p
                   ELSE /\ new = <<>>
                        /\ post.position = pre.position
            /\ ReachesRule6(r) /\ holding =>
                /\ r.via = "rule6"
                /\ \A n \in {7, 8} : RuleFields(n, post) = RuleFields(n, pre)
                /\ BootstrapFields(post) = BootstrapFields(pre)
                /\ IF p >= Val(pre.position).entry + Rule6ProfitAmount(cfg)
                   THEN /\ Len(new) = 1
                        /\ new[1].direction = "sell"
                        /\ new[1].price = p
                        /\ new[1].win_reason = "RULE_6"
                        /\ new[1].profit = Some(p - Val(pre.position).entry)
                        /\ Val(new[1].profit) >= Rule6ProfitAmount(cfg)
                        /\ IsNone(post.position)
                        /\ ~post.rule6_active
                   ELSE /\ new = <<>>
                        /\ post.position = pre.position
                        /\ post.rule6_active
            /\ (\E i \in 1..Len(new) : new[i].win_reason = "RULE_6") =>
                /\ holding
                /\ p >= Val(pre.position).entry + Rule6ProfitAmount(cfg)

\* Rule 6 has sold the position it bought on the first "up" after the down
\* streak, at entry + profit_amount or more.
C30_Witness ==
    /\ session = "r6"
    /\ last_call = [op |-> "on_signal", via |-> "rule6"]
    /\ Key \in DOMAIN states
    /\ ~states[Key].rule6_active
    /\ IsNone(states[Key].position)
    /\ Len(states[Key].trade_history) >= 2
    /\ LET h == states[Key].trade_history
           s == h[Len(h)]
           b == h[Len(h) - 1]
       IN  /\ s.direction = "sell" /\ s.win_reason = "RULE_6" /\ s.ts = now
           /\ b.direction = "buy" /\ b.ts < now /\ b.trade_id = s.trade_id
           /\ Val(s.profit) >= Rule6ProfitAmount(WithRules({6}))

\* Rule 6 holds a position below its target.
C30_Holding ==
    /\ session = "r6"
    /\ last_call = [op |-> "on_signal", via |-> "rule6"]
    /\ Key \in DOMAIN states
    /\ states[Key].rule6_active
    /\ NotNone(states[Key].position)
    /\ Val(states[Key].position).ts < now


\* Calls that exercise Rule 7 alone, after the sell rules, before Rule 8
\* and with every rule enabled.
Rule7Cfgs == {WithRules({7}), WithRules({1, 2, 3, 7}), WithRules({7, 8}), WithRules(1..9)}

\* The call got as far as Rule 7.
ReachesRule7(r) == ReachesAutoRules(r) /\ r.via \notin {"rule5", "rule6"}

\* The effective threshold of Rule 7, in seconds.
Rule7UpSeconds(cfg) == Max(OrDefault(cfg.rule_7_up_minutes, 30), 1)

\* C31: any non-up signal evaluated by Rule 7 while it is not holding a
\* Rule 7 position leaves rule7_up_start none and rule7_ready_for_buy
\* false; rule7_up_start is set only by an "up" signal, to the time of that
\* signal, and never moved, and the ready flag is never set without it; so
\* Rule 7 buys only on an "up" signal, while flat, with rule7_up_start
\* set (every signal since then was "up") at least the threshold number of
\* seconds before.
C31_Rule7StrictReset ==
    /\ \A key \in DOMAIN states :
          states[key].rule7_ready_for_buy => NotNone(states[key].rule7_up_start)
    /\ \A cfg \in Rule7Cfgs, trend \in Trends, price_str \in ValidPrices :
          LET r == Signal(trend, price_str, Ticker, cfg)
              pre == Before(Key)
              post == r.m[Key]
              new == NewRecords(r)
              t == now + 1
              holding == pre.rule7_active /\ NotNone(pre.position)
          IN  /\ ReachesRule7(r) /\ ~holding /\ trend # "up" =>
                  /\ IsNone(post.rule7_up_start)
                  /\ ~post.rule7_ready_for_buy
              /\ IsNone(pre.rule7_up_start) /\ NotNone(post.rule7_up_start) =>
                  /\ trend = "up"
                  /\ post.rule7_up_start = Some(t)
              /\ NotNone(pre.rule7_up_start) /\ NotNone(post.rule7_up_start) =>
                  post.rule7_up_start = pre.rule7_up_start
              /\ ~pre.rule7_ready_for_buy /\ post.rule7_ready_for_buy =>
                  /\ trend = "up"
                  /\ NotNone(pre.rule7_up_start)
                  /\ ElapsedSeconds(t, Val(pre.rule7_up_start)) >= Rule7UpSeconds(cfg)
              /\ r.via = "rule7" /\ new # <<>> =>
                  /\ trend = "up"
                  /\ IsNone(pre.position)
                  /\ NotNone(pre.rule7_up_start)
                  /\ ElapsedSeconds(t, Val(pre.rule7_up_start)) >= Rule7UpSeconds(cfg)
                  /\ Len(new) = 1
                  /\ new[1].direction = "buy"
                  /\ post.rule7_active

\* Rule 7 bought on an "up" signal, the threshold after the "up" that
\* started its timer, earlier non-up signals having left the timer cleared.
C31_Witness ==
    /\ session = "r7"
    /\ last_call = [op |-> "on_signal", via |-> "rule7"]
    /\ Key \in DOMAIN states
    /\ states[Key].rule7_active
    /\ NotNone(states[Key].position)
    /\ Val(states[Key].position).ts = now
    /\ now >= 4


\* Calls with Rule 7 enabled, rules 5, 6, 8 disabled and the default
\* strategy enabled.
Rule7WithDefaultCfgs == {WithRules({7}), WithRules({1, 7})}

\* One more "up" signal, with Rule 7 enabled, opens a position only when
\* the timer of Rule 7 was started at least the threshold before.  A key
\* that is flat with rule7_active still set is left out with fresh_only.
NoBuyOnUpWithoutCountdown(fresh_only) ==
    LET pre == Before(Key)
    IN  session = "r7" /\ (fresh_only => ~(pre.rule7_active /\ IsNone(pre.position))) =>
          \A cfg \in Rule7WithDefaultCfgs, price_str \in ValidPrices :
              LET r == Signal("up", price_str, Ticker, cfg)
                  new == NewRecords(r)
              IN  (\E i \in 1..Len(new) : new[i].direction = "buy") =>
                    /\ r.via = "rule7"
                    /\ NotNone(pre.rule7_up_start)
                    /\ ElapsedSeconds(now + 1, Val(pre.rule7_up_start))
                          >= Rule7UpSeconds(cfg)

\* C32, as claimed: with Rule 7 enabled on every call (rules 5, 6, 8
\* disabled, default strategy enabled), no position is opened on an "up"
\* signal unless "up" signals have been continuous for at least the
\* threshold seconds; after a Rule 7 position is sold the next buy on an
\* "up" signal happens only after a full new countdown, never on the first
\* "up" signal after the sell.
C32_NoBuyOnUpBeforeCountdown == NoBuyOnUpWithoutCountdown(FALSE)

\* What holds: the same, for a key that is not flat with rule7_active set
\* (the sell was the default strategy's, which clears the flag).
NoBuyOnUpBeforeCountdownUnlessStale == NoBuyOnUpWithoutCountdown(TRUE)

\* Rule 7 bought, Rule 1 took the profit on the next signal, and the "up"
\* signal after that bought at once through the default strategy.
C32_BoughtOnFirstUpAfterSell ==
    /\ session = "r7"
    /\ last_call = [op |-> "on_signal", via |-> "default"]
    /\ Key \in DOMAIN states
    /\ Len(states[Key].trade_history) = 3
    /\ LET h == states[Key].trade_history
       IN  /\ h[1].direction = "buy" /\ h[1].ts = now - 2
           /\ h[2].direction = "sell" /\ h[2].ts = now - 1
           /\ h[2].win_reason = "TAKE_PROFIT_RULE_1"
           /\ h[3].direction = "buy" /\ h[3].ts = now
    /\ IsNone(states[Key].rule7_up_start)
    /\ ~states[Key].rule7_active


\* The position of the key was opened by the last call.
OpenedByLastCall ==
    /\ Key \in DOMAIN states
    /\ NotNone(states[Key].position)
    /\ Val(states[Key].position).ts = now
    /\ last_call.via # "rejected"
    /\ trade_history # <<>>
    /\ LastRecord.direction = "buy"
    /\ LastRecord.ts = now

\* One more "down" signal on a position the last call opened.  When Rule 7
\* opened it and the default strategy sells it, the sell is tagged RULE_7
\* and rule7_active is cleared; a position that something else opened is
\* never sold with tag RULE_7.  Without strict, only the first is checked,
\* and only for a key that is not waiting for the second "down" of its
\* bootstrap.
Rule7TagOnSell(strict) ==
    OpenedByLastCall =>
        \A cfg \in Rule7WithDefaultCfgs, price_str \in ValidPrices :
            LET r == Signal("down", price_str, Ticker, cfg)
                new == NewRecords(r)
            IN  IF last_call.via = "rule7"
                THEN r.via = "default"
                     /\ (strict \/ ~states[Key].waiting_for_second_down) =>
                       /\ Len(new) = 1
                       /\ new[1].direction = "sell"
                       /\ new[1].win_reason = "RULE_7"
                       /\ new[1].trade_id = LastRecord.trade_id
                       /\ ~r.m[Key].rule7_active
                ELSE strict =>
                       \A i \in 1..Len(new) : new[i].win_reason # "RULE_7"

\* C33, as claimed: a position opened by Rule 7 is closed by the default
\* "down" sell while Rule 7 returns False, and that sell is tagged RULE_7;
\* conversely a sell record is tagged RULE_7 only if the position it closes
\* was opened by Rule 7's buy: a stale rule7_active flag never tags the
\* sell of a position opened by another rule, the default strategy or
\* manual_toggle.
C33_Rule7TagOnlyOnRule7Positions == Rule7TagOnSell(TRUE)

\* What holds: outside the bootstrap, the default "down" sell of a position
\* opened by Rule 7 is tagged RULE_7 and clears rule7_active.
Rule7PositionSoldWithTagAfterBootstrap == Rule7TagOnSell(FALSE)

\* manual_toggle opened a position while rule7_active was still set from a
\* Rule 7 position that manual_toggle or Rule 1 had closed.
C33_ManualPositionUnderRule7Flag ==
    /\ session = "r7"
    /\ OpenedByLastCall
    /\ last_call.op = "manual_toggle"
    /\ states[Key].rule7_active
    /\ Len(states[Key].trade_history) = 3
    /\ states[Key].trade_history[2].direction = "sell"


\* The converse alone: a "down" signal on a position the last call opened,
\* that call not being Rule 7's buy, records no sell tagged RULE_7.
Rule7TagNeverOnOtherPositions ==
    OpenedByLastCall /\ last_call.via # "rule7" =>
        \A cfg \in Rule7WithDefaultCfgs, price_str \in ValidPrices :
            LET new == NewRecords(Signal("down", price_str, Ticker, cfg))
            IN  \A i \in 1..Len(new) : new[i].win_reason # "RULE_7"


\* Calls with Rule 8 enabled: alone, with the cooldown, after the sell
\* rules, after Rule 7, with every rule, and with a zero buy offset.
Rule8Cfgs ==
    {WithRules({8}), WithRules({8, 9}), WithRules({1, 2, 3, 8}), WithRules({7, 8}),
     WithRules(1..9), [WithRules({8}) EXCEPT !.rule_8_buy_offset = Some(0)]}

\* The offsets of a call as Rule 8 takes them.
Rule8BuyOffset(cfg) ==
    IF NotNone(cfg.rule_8_buy_offset) THEN Val(cfg.rule_8_buy_offset) ELSE 25
Rule8SellOffset(cfg) ==
    IF NotNone(cfg.rule_8_sell_offset) THEN Val(cfg.rule_8_sell_offset) ELSE 25

\* C34: with Rule 8 enabled no call ends in the default strategy, in Rule 9
\* or past the rules, and the bootstrap flags never change: a call that
\* reaches Rule 8 ends there; enabling Rule 9 next to Rule 8 changes
\* nothing of the outcome; while long, Rule 8 sells exactly when
\* price >= entry + sell_offset, with tag RULE_8, and no record is tagged
\* RULE_8 otherwise.
C34_Rule8Exclusive ==
    /\ \A cfg \in Rule8Cfgs, trend \in Trends, price_str \in ValidPrices :
          LET r == Signal(trend, price_str, Ticker, cfg)
              p == PriceOf(price_str)
              pre == Before(Key)
              post == r.m[Key]
              new == NewRecords(r)
          IN  /\ r.via \notin {"default", "rule9", "none", "pass"}
              /\ BootstrapFields(post) = BootstrapFields(pre)
              /\ ReachesAutoRules(r) /\ r.via \notin {"rule5", "rule6", "rule7"} =>
                    r.via = "rule8"
              /\ r.via = "rule8" /\ NotNone(pre.position) =>
                    IF p >= Val(pre.position).entry + Rule8SellOffset(cfg)
                    THEN /\ Len(new) = 1
                         /\ new[1].direction = "sell"
                         /\ new[1].price = p
                         /\ new[1].win_reason = "RULE_8"
                         /\ IsNone(post.position)
                    ELSE /\ new = <<>>
                         /\ post.position = pre.position
              /\ (\E i \in 1..Len(new) : new[i].win_reason = "RULE_8") =>
                    /\ r.via = "rule8"
                    /\ NotNone(pre.position)
                    /\ p >= Val(pre.position).entry + Rule8SellOffset(cfg)
    /\ \A trend \in Trends, price_str \in ValidPrices :
          LET r8 == Signal(trend, price_str, Ticker, WithRules({8}))
              r89 == Signal(trend, price_str, Ticker, WithRules({8, 9}))
          IN  r89 = r8

\* Rule 8 sold the position it held, at entry + sell_offset or more; the
\* default strategy has never run for the key.
C34_Witness ==
    /\ session = "r8"
    /\ last_call = [op |-> "on_signal", via |-> "rule8"]
    /\ Key \in DOMAIN states
    /\ IsNone(states[Key].position)
    /\ ~states[Key].first_cycle_done
    /\ Len(states[Key].trade_history) >= 2
    /\ LET h == states[Key].trade_history
           s == h[Len(h)]
           b == h[Len(h) - 1]
       IN  /\ s.direction = "sell" /\ s.win_reason = "RULE_8" /\ s.ts = now
           /\ b.direction = "buy" /\ b.trade_id = s.trade_id
           /\ s.price >= b.price + Rule8SellOffset(WithRules({8}))


\* One more call, seen from Rule 8's watch price.  A call that ends in
\* Rule 8 on a flat key raises the watch price to the current price when
\* that is higher (or sets it when none), buys exactly when
\* price <= watch price - buy_offset, and clears the watch price when it
\* buys; on a long key it clears it when it sells and leaves it otherwise;
\* a call that does not end in Rule 8 leaves the watch price as it was.
Rule8WatchCalls ==
    \A cfg \in Rule8Cfgs, trend \in Trends, price_str \in ValidPrices :
        LET r == Signal(trend, price_str, Ticker, cfg)
            p == PriceOf(price_str)
            pre == Before(Key)
            post == r.m[Key]
            new == NewRecords(r)
            w == IF IsNone(pre.rule8_watch_price) THEN p
                 ELSE Max(Val(pre.rule8_watch_price), p)
        IN  /\ r.via # "rule8" => post.rule8_watch_price = pre.rule8_watch_price
            /\ r.via = "rule8" /\ IsNone(pre.position) =>
                  IF p <= w - Rule8BuyOffset(cfg)
                  THEN /\ Len(new) = 1
                       /\ new[1].direction = "buy"
                       /\ new[1].price = p
                       /\ NotNone(post.position)
                       /\ IsNone(post.rule8_watch_price)
                  ELSE /\ new = <<>>
                       /\ IsNone(post.position)
                       /\ post.rule8_watch_price = Some(w)
            /\ r.via = "rule8" /\ NotNone(pre.position) =>
                  IF new # <<>>
                  THEN IsNone(post.rule8_watch_price)
                  ELSE post.rule8_watch_price = pre.rule8_watch_price

\* The key traded in the last call.
TradedInLastCall(key) ==
    /\ last_call.via \notin {"rejected", "init"}
    /\ states[key].trade_history # <<>>
    /\ states[key].trade_history[Len(states[key].trade_history)].ts = now

\* C35, as claimed: Rule 8 buys only on a pullback from the running peak:
\* while flat, rule8_watch_price is the maximum price Rule 8 has observed
\* since the key last became flat, a buy happens exactly when
\* price <= rule8_watch_price - buy_offset, and rule8_watch_price is none
\* after every buy and after every sell of the key (and so for as long as a
\* position is open), so that a peak seen before an earlier position never
\* triggers a later buy.
C35_WatchPriceClearedByEveryTrade ==
    /\ Rule8WatchCalls
    /\ \A key \in DOMAIN states :
          /\ TradedInLastCall(key) => IsNone(states[key].rule8_watch_price)
          /\ NotNone(states[key].position) => IsNone(states[key].rule8_watch_price)

\* What holds: rule8_watch_price is the maximum price Rule 8 has observed
\* since the watch price was last cleared, and it is none after every buy
\* and every sell made by Rule 8; a buy or a sell made by anything else
\* leaves it as it was.
C35_WatchPriceClearedByRule8Trades ==
    /\ Rule8WatchCalls
    /\ \A key \in DOMAIN states :
          TradedInLastCall(key) /\ last_call.via = "rule8" =>
              IsNone(states[key].rule8_watch_price)
    /\ session = "r8" =>
          \A key \in DOMAIN states :
              NotNone(states[key].position) => IsNone(states[key].rule8_watch_price)

\* Rule 8 watched a price without buying and bought on the next signal, a
\* pullback of buy_offset from it; the watch price is cleared.
C35_Witness ==
    /\ session = "r8"
    /\ last_call = [op |-> "on_signal", via |-> "rule8"]
    /\ now = 2
    /\ Key \in DOMAIN states
    /\ NotNone(states[Key].position)
    /\ Val(states[Key].position).ts = now
    /\ Val(states[Key].position).entry = 100
    /\ Len(states[Key].trade_history) = 1
    /\ IsNone(states[Key].rule8_watch_price)

\* A position that Rule 7 opened is held while Rule 8 still has the peak
\* it saw before.
C35_PeakKeptThroughPosition ==
    /\ session = "all"
    /\ Key \in DOMAIN states
    /\ NotNone(states[Key].position)
    /\ NotNone(states[Key].rule8_watch_price)


\* Rule 8 bought on a peak it saw before a position that Rule 7 opened and
\* Rule 1 closed.
C35_BoughtOnEarlierPeak ==
    /\ session = "all"
    /\ last_call = [op |-> "on_signal", via |-> "rule8"]
    /\ Key \in DOMAIN states
    /\ Len(states[Key].trade_history) = 3
    /\ LET h == states[Key].trade_history
       IN  /\ h[2].win_reason = "TAKE_PROFIT_RULE_1"
           /\ h[3].direction = "buy" /\ h[3].ts = now /\ h[2].ts = now - 1
           /\ h[1].direction = "buy" /\ h[1].price = h[3].price


\* Calls that end in the default strategy unless a sell rule sells.
BootstrapCfgs == {BaseCfg, WithRules({1}), WithRules({1, 2, 3})}

\* C36, as claimed: the default strategy opens a position on a "down"
\* signal at most once per key: after the bootstrap buy (which sets
\* waiting_for_second_down, and whose second "down" sets first_cycle_done),
\* no later "down" signal buys, even if the bootstrap position was closed by
\* Rule 1, 2 or 3 or by manual_toggle before the second "down" arrived.
C36_DownBuysOncePerKey ==
    \A cfg \in BootstrapCfgs, price_str \in ValidPrices :
        LET r == Signal("down", price_str, Ticker, cfg)
            pre == Before(Key)
            new == NewRecords(r)
        IN  (\E i \in 1..Len(new) : new[i].direction = "buy") =>
              /\ r.via = "default"
              /\ ~pre.waiting_for_second_down
              /\ ~pre.first_cycle_done

\* What holds: the default strategy buys on "down" only before the
\* bootstrap is done and while the key is flat.
DownBuysOnlyInBootstrap ==
    \A cfg \in BootstrapCfgs, price_str \in ValidPrices :
        LET r == Signal("down", price_str, Ticker, cfg)
            pre == Before(Key)
            new == NewRecords(r)
        IN  (\E i \in 1..Len(new) : new[i].direction = "buy") =>
              /\ r.via = "default"
              /\ IsNone(pre.position)
              /\ ~pre.first_cycle_done

\* The bootstrap bought on a first "down", Rule 1 took the profit, and the
\* next "down" bought again.
C36_SecondBootstrapBuy ==
    /\ session = "sell"
    /\ last_call = [op |-> "on_signal", via |-> "default"]
    /\ Key \in DOMAIN states
    /\ ~states[Key].first_cycle_done
    /\ states[Key].waiting_for_second_down
    /\ Len(states[Key].trade_history) = 3
    /\ LET h == states[Key].trade_history
       IN  /\ h[1].direction = "buy" /\ h[1].ts = 1
           /\ h[2].direction = "sell" /\ h[2].win_reason = "TAKE_PROFIT_RULE_1"
           /\ h[3].direction = "buy" /\ h[3].ts = now


----------------------------------------------------------------------------
(* The trading-hours check.  A time of day is counted in minutes since     *)
(* midnight; a clock reading is a weekday (Monday = 0), a minute of the    *)
(* day and a second.  A start or end argument is None or a string, given   *)
(* by the numbers between its colons (none for the empty string) and by    *)
(* whether int() accepts them; an allowed_days argument is None or a list, *)
(* given by its entries and by whether int() accepts them.                 *)

MinutesPerHour == 60
DefaultStart == 9 * MinutesPerHour + 30
DefaultEnd == 16 * MinutesPerHour

TimeStr(parts) == Some([parts |-> parts, numeric |-> TRUE])
NotATime == Some([parts |-> <<0>>, numeric |-> FALSE])
DayList(items) == Some([items |-> items, numeric |-> TRUE])
NotDays == Some([items |-> <<0>>, numeric |-> FALSE])

SeqRange(q) == {q[i] : i \in 1..Len(q)}

\* dt_time(int(parts[0]), int(parts[1]) if len(parts) > 1 else 0), as
\* minutes, with the default for a falsy argument and for any exception.
parse_time(time_str, default) ==
    IF IsNone(time_str) THEN default
    ELSE LET a == Val(time_str)
         IN  IF a.parts = <<>> THEN default
             ELSE IF ~a.numeric THEN default
             ELSE LET h == a.parts[1]
                      m == IF Len(a.parts) > 1 THEN a.parts[2] ELSE 0
                  IN  IF h \in 0..23 /\ m \in 0..59
                      THEN h * MinutesPerHour + m ELSE default

\* The trading-hours check closing one minute early.
is_trading_hours_before_end(start_time_str, end_time_str, allowed_days, local, eastern) ==
    LET using_custom == NotNone(start_time_str) \/ NotNone(end_time_str)
                        \/ NotNone(allowed_days)
        clk == IF using_custom THEN local ELSE eastern
        days == IF NotNone(allowed_days)
                THEN IF Val(allowed_days).numeric
                     THEN SeqRange(Val(allowed_days).items) ELSE 0..6
                ELSE IF using_custom THEN 0..6 ELSE 0..4
    IN  IF clk.weekday \notin days THEN FALSE
        ELSE /\ parse_time(start_time_str, DefaultStart) <= clk.minute
             /\ clk.minute < parse_time(end_time_str, DefaultEnd)

is_trading_hours(start_time_str, end_time_str, allowed_days, local, eastern) ==
    LET using_custom == NotNone(start_time_str) \/ NotNone(end_time_str)
                        \/ NotNone(allowed_days)
        clk == IF using_custom THEN local ELSE eastern
        days == IF NotNone(allowed_days)
                THEN IF Val(allowed_days).numeric
                     THEN SeqRange(Val(allowed_days).items) ELSE 0..6
                ELSE IF using_custom THEN 0..6 ELSE 0..4
    IN  IF clk.weekday \notin days THEN FALSE
        ELSE /\ parse_time(start_time_str, DefaultStart) <= clk.minute
             /\ clk.minute <= parse_time(end_time_str, DefaultEnd)

StartArgs == {None, TimeStr(<<>>), TimeStr(<<10>>), NotATime}
EndArgs == {None, TimeStr(<<>>), TimeStr(<<10, 0>>), TimeStr(<<24, 0>>)}
DaysArgs == {None, DayList(<<0, 1, 2, 3, 4>>), DayList(<<5>>), DayList(<<>>), NotDays}
ClockReadings ==
    {[weekday |-> d, minute |-> m, second |-> sec] :
        d \in {0, 4, 5, 6},
        m \in {DefaultStart - 1, DefaultStart, 10 * MinutesPerHour,
                10 * MinutesPerHour + 1, DefaultEnd, DefaultEnd + 1},
        sec \in {0, 59}}
FridayAfternoon == [weekday |-> 4, minute |-> 15 * MinutesPerHour, second |-> 0]

InitHours ==
    /\ now = 0
    /\ states = <<>>
    /\ trade_history = <<>>
    /\ last_call = [op |-> "init", via |-> "init"]
    /\ on_trade_calls = <<>>
    /\ session = "hours"
    /\ in_progress = <<>>
    /\ \E start \in StartArgs, end \in EndArgs, days \in DaysArgs,
          local \in ClockReadings, eastern \in ClockReadings :
          /\ eastern \in {local, FridayAfternoon}
          /\ hours_call = Some([start |-> start, end |-> end, days |-> days,
                                local |-> local, eastern |-> eastern,
                                answer |-> "pending"])

\* The call returns.
IsTradingHours ==
    /\ hours_call # <<>>
    /\ Val(hours_call).answer = "pending"
    /\ LET a == Val(hours_call)
       IN  hours_call' = Some([a EXCEPT !.answer =
               IF is_trading_hours(a.start, a.end, a.days, a.local, a.eastern)
               THEN "true" ELSE "false"])
    /\ last_call' = [op |-> "is_trading_hours", via |-> "returned"]
    /\ UNCHANGED <<now, states, trade_history, on_trade_calls, session, in_progress>>

NextHours == IsTradingHours

SpecHours == InitHours /\ [][NextHours]_vars

\* The call has returned for the arguments and clocks in hours_call.
HoursAnswered == hours_call # <<>> /\ Val(hours_call).answer # "pending"

\* The clock the call read: the server's local clock when any argument is
\* given, the Eastern clock otherwise.
ClockRead(a) ==
    IF NotNone(a.start) \/ NotNone(a.end) \/ NotNone(a.days) THEN a.local ELSE a.eastern

\* The answer is True exactly when the weekday is among days and the
\* minute of the clock lies between start and end, both included, where
\* an absent, empty or unparsable start or end is 09:30 or 16:00.
AnswerIs(a, days) ==
    LET clk == ClockRead(a)
        start == parse_time(a.start, DefaultStart)
        end == parse_time(a.end, DefaultEnd)
    IN  (a.answer = "true")
          <=> (clk.weekday \in days /\ start <= clk.minute /\ clk.minute <= end)

\* The days a list allows: its entries, or every day when int() refuses one.
GivenDays(a) ==
    IF Val(a.days).numeric THEN SeqRange(Val(a.days).items) ELSE 0..6

\* C37, as claimed: is_trading_hours returns True exactly when the current
\* weekday is in the allowed days and start <= current time truncated to
\* the minute <= end, both bounds inclusive, with defaults 09:30, 16:00 and
\* Monday-Friday; when the caller gives no allowed days, Saturday and
\* Sunday are outside trading hours whether or not custom start/end times
\* are supplied.
C37_TradingHoursMondayToFridayByDefault ==
    HoursAnswered =>
        LET a == Val(hours_call)
        IN  AnswerIs(a, IF NotNone(a.days) THEN GivenDays(a) ELSE 0..4)

\* C37, amended: as claimed, but when the caller gives no allowed days
\* they are Monday-Friday only if no start and no end is given either;
\* with a start or an end given and no allowed days, every day of the
\* week is allowed, Saturday and Sunday included.
C37_TradingHoursEveryDayWithCustomTimes ==
    HoursAnswered =>
        LET a == Val(hours_call)
        IN  AnswerIs(a, IF NotNone(a.days) THEN GivenDays(a)
                        ELSE IF NotNone(a.start) \/ NotNone(a.end) THEN 0..6
                        ELSE 0..4)

\* The call answered True on a Saturday at the last second of the end
\* minute, with a custom end time and no allowed days given.
C37_Witness ==
    /\ HoursAnswered
    /\ LET a == Val(hours_call)
       IN  /\ a.answer = "true"
           /\ IsNone(a.days)
           /\ a.end = TimeStr(<<10, 0>>)
           /\ a.local.weekday = 5
           /\ a.local.minute = 10 * MinutesPerHour
           /\ a.local.second = 59

----------------------------------------------------------------------------
(* The stage flags of rules 5 and 6 against the position.                  *)

\* C38: rule stage flags never outlive the position they guard: whenever
\* rule5_reversal_active or rule6_active is true at the end of a call, the
\* key holds an open position, so that Rule 5 never keeps ending the calls
\* of a flat key after Rule 1, 2 or 3 or a manual action closed its
\* reversal position.
C38_StageFlagsImplyPosition ==
    \A k \in DOMAIN states :
        states[k].rule5_reversal_active \/ states[k].rule6_active =>
            NotNone(states[k].position)

\* A sell rule closed the reversal position of Rule 5 below the reversal
\* target: the key is flat, rule5_reversal_active is still set, and every
\* signal priced below the target ends in Rule 5 without a trade and with
\* the flag kept, whatever its trend.
C38_Rule5BlocksFlatKey ==
    /\ session = "all"
    /\ last_call.via \in {"rule1", "rule2", "rule3"}
    /\ Key \in DOMAIN states
    /\ IsNone(states[Key].position)
    /\ states[Key].rule5_reversal_active
    /\ NotNone(states[Key].rule5_reversal_price)
    /\ LET cfg == WithRules(1..9)
           target == Val(states[Key].rule5_reversal_price) + Rule5ReversalAmount(cfg)
       IN  /\ \E price_str \in ValidPrices : PriceOf(price_str) < target
           /\ \A trend \in Trends, price_str \in ValidPrices :
                  PriceOf(price_str) < target =>
                      LET r == Signal(trend, price_str, Ticker, cfg)
                      IN  /\ r.via = "rule5"
                          /\ NewRecords(r) = <<>>
                          /\ IsNone(r.m[Key].position)
                          /\ r.m[Key].rule5_reversal_active
                          /\ \A n \in {6, 7, 8, 9} :
                                 RuleFields(n, r.m[Key]) = RuleFields(n, Before(Key))
                          /\ BootstrapFields(r.m[Key]) = BootstrapFields(Before(Key))

----------------------------------------------------------------------------
(* One key next to the others.                                             *)

\* The key of a (bot_id, ticker) pair, and the records that carry the pair.
KeyOf(e) == make_state_key(e[1], e[2])

OwnRecord(rec, e) ==
    /\ rec.bot_id = normalize_bot_id(e[1])
    /\ rec.ticker = normalize_ticker(e[2])

\* The configurations of the calls whose frame is checked.
IsolationCfgs == {BaseCfg, WithRules(1..9)}

\* The call r made for the pair e left every other key as it was, and
\* appended to the ledger exactly the records it appended to the history
\* of its own key, all of them carrying the pair.
OnlyOwnKeyChanged(r, e) ==
    LET K == KeyOf(e)
        new == NewRecords(r)
        old == IF K \in DOMAIN states THEN states[K].trade_history ELSE <<>>
    IN  /\ DOMAIN r.m = DOMAIN states \cup {K}
        /\ \A k \in DOMAIN states \ {K} : r.m[k] = states[k]
        /\ Len(r.g) >= Len(trade_history)
        /\ SubSeq(r.g, 1, Len(trade_history)) = trade_history
        /\ r.m[K].trade_history = old \o new
        /\ \A i \in 1..Len(new) : OwnRecord(new[i], e)
        /\ \A i \in 1..Len(r.m[K].trade_history) : OwnRecord(r.m[K].trade_history[i], e)

\* C39: keys are isolated: an on_signal or manual_toggle call for the key K
\* of a (bot_id, ticker) pair changes only the TickerState and the
\* trade_history of K and appends only K's records to the global ledger;
\* two pairs that differ in bot_id or in ticker have different keys, so
\* the same ticker traded by two bot_ids has two independent positions,
\* and the state of every other key is unchanged by the call.
C39_KeysIsolated ==
    session = "bots" =>
        /\ \A e1, e2 \in Entities(session) : e1 # e2 => KeyOf(e1) # KeyOf(e2)
        /\ \A e \in Entities(session), price_str \in ValidPrices :
            /\ \A cfg \in IsolationCfgs, trend \in Trends :
                   OnlyOwnKeyChanged(
                       on_signal(states, trade_history, trend, price_str, e[2],
                                 e[1], <<>>, cfg, now + 1), e)
            /\ OnlyOwnKeyChanged(
                   manual_toggle(states, trade_history, price_str, e[2],
                                 e[1], <<>>, "ok", now + 1), e)

\* Two bots traded the same ticker: the first still holds the position it
\* opened, the second has opened and closed one since, and the last call,
\* made for the second, left the state of the first as it was.
C39_Witness ==
    LET kx == KeyOf(<<<<"x">>, Ticker>>)
        ky == KeyOf(<<<<"y">>, Ticker>>)
    IN  /\ session = "bots"
        /\ last_call.op = "on_signal"
        /\ {kx, ky} \subseteq DOMAIN states
        /\ kx # ky
        /\ NotNone(states[kx].position)
        /\ Len(states[kx].trade_history) = 1
        /\ IsNone(states[ky].position)
        /\ Len(states[ky].trade_history) = 2
        /\ Len(trade_history) = 3
        /\ trade_history[1].bot_id = <<"x">>
        /\ trade_history[3].bot_id = <<"y">>
        /\ trade_history[3].direction = "sell"

----------------------------------------------------------------------------
(* The request handlers next to a sell of the loop.                        *)

\* The sell records of the ledger that carry the trade_id id.
SellsOf(id) ==
    {i \in 1..Len(trade_history) :
        trade_history[i].direction = "sell" /\ trade_history[i].trade_id = id}

\* C40: under every interleaving of the close_all_positions or manual_trade
\* request handlers with an on_signal call of the signal loop on the same
\* key, an open position is closed by exactly one sell record: no buy's
\* trade_id appears on two sell records, and no sell record is logged for a
\* position another thread already closed.
C40_OneSellPerPosition ==
    \A i \in 1..Len(trade_history) :
        trade_history[i].direction = "buy" =>
            Cardinality(SellsOf(trade_history[i].trade_id)) <= 1

\* close_all_positions closed the position while the loop's sell had read
\* it and not yet cleared it: the ledger ends with the handler's INCOMPLETE
\* sell and the loop's sell, both carrying the trade_id of the one buy, and
\* the key's profit counts the position twice.
C40_PositionSoldTwice ==
    /\ session = "race"
    /\ last_call = [op |-> "on_signal", via |-> "default"]
    /\ Len(trade_history) = 3
    /\ trade_history[1].direction = "buy"
    /\ trade_history[2].direction = "sell"
    /\ trade_history[2].win_reason = "INCOMPLETE"
    /\ trade_history[2].trade_id = trade_history[1].trade_id
    /\ trade_history[3].direction = "sell"
    /\ trade_history[3].win_reason = NoReason
    /\ trade_history[3].trade_id = trade_history[1].trade_id
    /\ trade_history[3].ts = now
    /\ IsNone(states[Key].position)

====
